---- MODULE Spec2Model ----
(***************************************************************************)
(* Model of the NTC data processor (src/data_processor.py), of the NTC     *)
(* calibration equations (src/ntc_calibration.py), of the conversion in    *)
(* the acquisition script (src/ntc_test_daq970a.py) and of the angle       *)
(* functions (src/angle_utils.py and the qr_positioning modules).          *)
(*                                                                         *)
(* Three specifications: Spec makes one call at a time of a method taken   *)
(* as a function of its arguments; AngleSpec runs normalize_angle_deg      *)
(* statement by statement on binary64 floats; StoreSpec runs concurrent    *)
(* calls of process_channel_data on arrays as objects in a shared store.   *)
(*                                                                         *)
(* Numbers.  A float is modelled as an exact rational <<n, d>> with d > 0  *)
(* in lowest terms; NaN is <<0, 0>>.  Comparisons with NaN are false and   *)
(* arithmetic on NaN gives NaN, as in IEEE-754.  Rounding error of binary  *)
(* floating point is not modelled.  A standard deviation is carried as its *)
(* square (the variance), and `std < t` / `|x| / std > t` are decided on   *)
(* the squares, which is exact for the positive thresholds the processor   *)
(* is configured with.                                                     *)
(*                                                                         *)
(* A raised Python exception is modelled by the return value Raised.       *)
(***************************************************************************)
EXTENDS Integers, Sequences, FiniteSets, TLC

VARIABLES
    op,     \* the method being called ("idle" between calls)
    args,   \* the arguments of that call; args.self holds the four fields
            \* __init__ gave the processor, for the methods that read them
    ret     \* what the call returned (or Raised)

vars == <<op, args, ret>>

----------------------------------------------------------------------------
(* Bounds of the model *)

MaxLen == 4          \* longest enumerated sample / timestamp sequence

MaxChannelLen == 3   \* longest enumerated channel given to the whole pipeline

MaxWindow == 3       \* largest window passed explicitly to a filter or scan

----------------------------------------------------------------------------
(* Exact rational arithmetic standing for float64 *)

NaN == <<0, 0>>

IsNaN(x) == x[2] = 0

Abs(n) == IF n < 0 THEN -n ELSE n

RECURSIVE Gcd(_, _)
Gcd(a, b) == IF b = 0 THEN a ELSE Gcd(b, a % b)

Norm(n, d) ==
    IF d = 0 THEN NaN
    ELSE LET g == Gcd(Abs(n), Abs(d))
             s == IF d < 0 THEN -1 ELSE 1
         IN  <<(s * n) \div g, (s * d) \div g>>

R(n) == <<n, 1>>

RAdd(a, b) ==
    IF IsNaN(a) \/ IsNaN(b) THEN NaN
    ELSE LET g == Gcd(a[2], b[2])
         IN  Norm(a[1] * (b[2] \div g) + b[1] * (a[2] \div g), a[2] * (b[2] \div g))

RNeg(a) == IF IsNaN(a) THEN NaN ELSE <<-a[1], a[2]>>

RSub(a, b) == RAdd(a, RNeg(b))

RMul(a, b) ==
    IF IsNaN(a) \/ IsNaN(b) THEN NaN
    ELSE LET g1 == Gcd(Abs(a[1]), b[2])
             g2 == Gcd(Abs(b[1]), a[2])
         IN  Norm((a[1] \div g1) * (b[1] \div g2), (a[2] \div g2) * (b[2] \div g1))

\* a / b; 0/0 and x/NaN are NaN.  A non-zero numerator over zero (an
\* infinity) does not arise in the modelled calls and is mapped to NaN too.
RDiv(a, b) ==
    IF IsNaN(a) \/ IsNaN(b) \/ b[1] = 0 THEN NaN
    ELSE RMul(a, Norm(b[2], b[1]))

RAbs(a) == IF IsNaN(a) THEN NaN ELSE <<Abs(a[1]), a[2]>>

RLt(a, b) == ~IsNaN(a) /\ ~IsNaN(b) /\ a[1] * b[2] < b[1] * a[2]

RGt(a, b) == RLt(b, a)

RLe(a, b) == ~IsNaN(a) /\ ~IsNaN(b) /\ a[1] * b[2] <= b[1] * a[2]

RMax(a, b) == IF IsNaN(a) \/ IsNaN(b) THEN NaN ELSE IF RLt(a, b) THEN b ELSE a

----------------------------------------------------------------------------
(* numpy helpers used by the processor *)

\* a sequence built by [i \in 1..n |-> e], evaluated once into a tuple
Array(f) == f \o <<>>

\* the sum of s[lo..hi], halving the range
RECURSIVE SumRange(_, _, _)
SumRange(s, lo, hi) ==
    IF lo > hi THEN R(0)
    ELSE IF lo = hi THEN s[lo]
    ELSE LET mid == (lo + hi) \div 2
         IN  RAdd(SumRange(s, lo, mid), SumRange(s, mid + 1, hi))

SumSeq(s) == SumRange(s, 1, Len(s))

NotNaN(x) == ~IsNaN(x)

\* data[~np.isnan(data)]
ValidData(data) == SelectSeq(data, NotNaN)

CountNaN(data) == Len(data) - Len(ValidData(data))

AllNaN(s) == \A i \in 1..Len(s) : IsNaN(s[i])

CountTrue(m) == Cardinality({i \in 1..Len(m) : m[i]})

\* np.nanmean: NaN (with a RuntimeWarning, not an exception) on no valid entry
nanmean(data) ==
    LET v == ValidData(data)
    IN  IF Len(v) = 0 THEN NaN ELSE RDiv(SumSeq(v), R(Len(v)))

\* np.nanstd squared (population variance, ddof = 0)
nanvar(data) ==
    LET v == ValidData(data)
        m == nanmean(data)
    IN  IF Len(v) = 0 THEN NaN
        ELSE RDiv(SumSeq(Array([i \in 1..Len(v) |-> RMul(RSub(v[i], m), RSub(v[i], m))])), R(Len(v)))

\* s (free of NaN) in ascending order: entry i goes to the position that
\* counts the entries before it in the order (ties by index)
SortAsc(s) ==
    LET n == Len(s)
        before(j, i) == RLt(s[j], s[i]) \/ (s[j] = s[i] /\ j < i)
        rank == Array([i \in 1..n |-> 1 + Cardinality({j \in 1..n : before(j, i)})])
    IN  Array([k \in 1..n |-> s[CHOOSE i \in 1..n : rank[i] = k]])

\* np.percentile(v, q), default linear interpolation, given s = v sorted
\* (v free of NaN): the value at position q/100 * (n-1) of s.
percentile_sorted(s, q) ==
    LET n == Len(s)
        lo == (q * (n - 1)) \div 100
        fr == Norm((q * (n - 1)) % 100, 100)
    IN  IF n = 0 THEN NaN
        ELSE IF lo + 1 >= n THEN s[n]
        ELSE RAdd(s[lo + 1], RMul(fr, RSub(s[lo + 2], s[lo + 1])))

percentile(v, q) == percentile_sorted(SortAsc(v), q)

\* np.nanpercentile: NaN (with a RuntimeWarning) when no entry is valid
nanpercentile(data, q) == percentile(ValidData(data), q)

----------------------------------------------------------------------------
(* NTCDataProcessor.remove_outliers *)

\* z-score test with the threshold left unsquared (|x - mean|^2 / var > t)
ZScoreExceeds_Unsquared(x, mean, var, threshold) ==
    /\ ~IsNaN(x) /\ ~IsNaN(mean) /\ ~IsNaN(var)
    /\ var[1] # 0
    /\ RGt(RMul(RSub(x, mean), RSub(x, mean)), RMul(threshold, var))

\* np.abs((x - mean) / std) > threshold, decided on the squares
ZScoreExceeds(x, mean, var, threshold) ==
    /\ ~IsNaN(x) /\ ~IsNaN(mean) /\ ~IsNaN(var)
    /\ var[1] # 0
    /\ RGt(RMul(RSub(x, mean), RSub(x, mean)), RMul(RMul(threshold, threshold), var))

\* the mask written as ~(z <= threshold) and ~(lower <= x <= upper): a NaN
\* comparison is false, so NaN samples and 0/0 z-scores come out flagged
outlier_mask_of_Negated(data, method, outlier_threshold) ==
    IF method = "zscore" THEN
        LET mean == nanmean(data)
            var == nanvar(data)
        IN  Array([i \in 1..Len(data) |->
                ~(/\ ~IsNaN(data[i]) /\ ~IsNaN(var) /\ var[1] # 0
                  /\ RLe(RMul(RSub(data[i], mean), RSub(data[i], mean)),
                         RMul(RMul(outlier_threshold, outlier_threshold), var)))])
    ELSE IF method = "iqr" THEN
        LET q1 == nanpercentile(data, 25)
            q3 == nanpercentile(data, 75)
            iqr == RSub(q3, q1)
            lower_bound == RSub(q1, RMul(<<3, 2>>, iqr))
            upper_bound == RAdd(q3, RMul(<<3, 2>>, iqr))
        IN  Array([i \in 1..Len(data) |-> ~(RLe(lower_bound, data[i]) /\ RLe(data[i], upper_bound))])
    ELSE Array([i \in 1..Len(data) |-> FALSE])

\* the mask with every method other than zscore treated as iqr
outlier_mask_of_UnknownAsIqr(data, method, outlier_threshold) ==
    IF method = "zscore" THEN
        LET mean == nanmean(data)
            var == nanvar(data)
        IN  Array([i \in 1..Len(data) |-> ZScoreExceeds(data[i], mean, var, outlier_threshold)])
    ELSE
        LET q1 == nanpercentile(data, 25)
            q3 == nanpercentile(data, 75)
            iqr == RSub(q3, q1)
            lower_bound == RSub(q1, RMul(<<3, 2>>, iqr))
            upper_bound == RAdd(q3, RMul(<<3, 2>>, iqr))
        IN  Array([i \in 1..Len(data) |-> RLt(data[i], lower_bound) \/ RGt(data[i], upper_bound)])

outlier_mask_of(data, method, outlier_threshold) ==
    IF method = "zscore" THEN
        LET mean == nanmean(data)
            var == nanvar(data)
        IN  Array([i \in 1..Len(data) |-> ZScoreExceeds(data[i], mean, var, outlier_threshold)])
    ELSE IF method = "iqr" THEN
        LET q1 == nanpercentile(data, 25)
            q3 == nanpercentile(data, 75)
            iqr == RSub(q3, q1)
            lower_bound == RSub(q1, RMul(<<3, 2>>, iqr))
            upper_bound == RAdd(q3, RMul(<<3, 2>>, iqr))
        IN  Array([i \in 1..Len(data) |-> RLt(data[i], lower_bound) \/ RGt(data[i], upper_bound)])
    ELSE Array([i \in 1..Len(data) |-> FALSE])

remove_outliers(data, method, outlier_threshold) ==
    LET outlier_mask == outlier_mask_of(data, method, outlier_threshold)
    IN  [cleaned_data |-> Array([i \in 1..Len(data) |-> IF outlier_mask[i] THEN NaN ELSE data[i]]),
         outlier_mask |-> outlier_mask]

----------------------------------------------------------------------------
(* NTCDataProcessor.moving_average_filter *)

\* np.convolve(v, np.ones(window)/window, mode='same') for Len(v) >= window:
\* the Len(v) central entries of the full convolution, i.e. output i sums the
\* window inputs ending at i + (window-1) div 2, inputs outside v counting 0.
convolve_same(v, window) ==
    LET n == Len(v)
        hi(i) == i + ((window - 1) \div 2)
        lo(i) == hi(i) - window + 1
        term(i, j) == IF j >= 1 /\ j <= n THEN RMul(v[j], Norm(1, window)) ELSE R(0)
    IN  Array([i \in 1..n |-> SumSeq([k \in 1..window |-> term(i, lo(i) + k - 1)])])

\* number of non-NaN entries among data[1..i]
ValidRank(data, i) == Len(ValidData(SubSeq(data, 1, i)))

\* the moving average that returns the filtered valid samples alone, without
\* putting them back at their indices among the NaN
moving_average_filter_DropsNaN(data, window) ==
    LET valid_data == ValidData(data)
    IN  IF Len(valid_data) = 0 THEN data
        ELSE IF Len(valid_data) >= window THEN convolve_same(valid_data, window)
        ELSE Array([i \in 1..Len(data) |-> NaN])

moving_average_filter(data, window) ==
    LET valid_data == ValidData(data)
    IN  IF Len(valid_data) = 0 THEN data
        ELSE IF Len(valid_data) >= window THEN
            LET filtered_valid == convolve_same(valid_data, window)
            IN  Array([i \in 1..Len(data) |->
                    IF IsNaN(data[i]) THEN NaN ELSE filtered_valid[ValidRank(data, i)]])
        ELSE Array([i \in 1..Len(data) |-> NaN])

----------------------------------------------------------------------------
(* NTCDataProcessor.calculate_derivative *)

\* np.diff
np_diff(s) == Array([i \in 1..(IF Len(s) = 0 THEN 0 ELSE Len(s) - 1) |-> RSub(s[i + 1], s[i])])

\* np.where(dt == 0, np.nan, dt)
zero_to_nan(dt) == Array([i \in 1..Len(dt) |-> IF ~IsNaN(dt[i]) /\ dt[i][1] = 0 THEN NaN ELSE dt[i]])

Raised == [raised |-> TRUE, value |-> <<>>]

Returned(v) == [raised |-> FALSE, value |-> v]

\* a / b on two 1-D arrays under numpy broadcasting: equal lengths divide
\* element by element, a length-1 operand is stretched to the other's length,
\* any other pair of lengths raises ValueError.
broadcast_divide(a, b) ==
    IF Len(a) = Len(b) THEN Returned(Array([i \in 1..Len(a) |-> RDiv(a[i], b[i])]))
    ELSE IF Len(a) = 1 THEN Returned(Array([i \in 1..Len(b) |-> RDiv(a[1], b[i])]))
    ELSE IF Len(b) = 1 THEN Returned(Array([i \in 1..Len(a) |-> RDiv(a[i], b[1])]))
    ELSE Raised

\* the derivative without np.where(dt == 0, np.nan, dt): a zero time step
\* divides by zero
calculate_derivative_NoZeroGuard(data, timestamps) ==
    IF Len(data) < 2 THEN Returned(<<>>)
    ELSE IF \E i \in 1..(Len(timestamps) - 1) : timestamps[i + 1] = timestamps[i] THEN Raised
    ELSE broadcast_divide(np_diff(data), np_diff(timestamps))

calculate_derivative(data, timestamps) ==
    IF Len(data) < 2 THEN Returned(<<>>)
    ELSE broadcast_divide(np_diff(data), zero_to_nan(np_diff(timestamps)))

----------------------------------------------------------------------------
(* NTCDataProcessor.detect_steady_state *)

\* np.nanstd(window_data) < threshold
StdBelow(window_data, threshold) ==
    LET var == nanvar(window_data)
    IN  /\ ~IsNaN(var)
        /\ RGt(threshold, R(0))
        /\ RLt(var, RMul(threshold, threshold))

\* the values i of range(window, len(data)) whose slice data[i-window:i] passes
SteadyCandidates(data, window, threshold) ==
    {i \in window..(Len(data) - 1) :
        StdBelow(SubSeq(data, i - window + 1, i), threshold)}

SetMin(S) == CHOOSE x \in S : \A y \in S : x <= y

detect_steady_state(data, window, threshold) ==
    IF Len(data) < window THEN [index |-> -1, is_steady |-> FALSE]
    ELSE LET c == SteadyCandidates(data, window, threshold)
         IN  IF c = {} THEN [index |-> -1, is_steady |-> FALSE]
             ELSE [index |-> SetMin(c), is_steady |-> TRUE]

----------------------------------------------------------------------------
(* NTCDataProcessor.median_filter, butterworth_filter, apply_filter *)

\* data[j] with scipy's zero padding outside the array
Padded(data, j) == IF j >= 1 /\ j <= Len(data) THEN data[j] ELSE R(0)

MedianWindow(data, i, window) ==
    Array([k \in 1..window |-> Padded(data, i - (window \div 2) + k - 1)])

\* The values signal.medfilt can put at position i.  A window free of NaN has
\* its middle order statistic.  A window holding a NaN is selected with
\* comparisons that are all false on NaN, so which element comes out depends
\* on the selection's internals: any element of the window is possible.
MedianCandidates(data, i, window) ==
    LET w == MedianWindow(data, i, window)
    IN  IF \E k \in 1..window : IsNaN(w[k])
        THEN {w[k] : k \in 1..window}
        ELSE {SortAsc(w)[(window \div 2) + 1]}

\* all sequences of the candidates at positions lo..hi, halving the range
RECURSIVE SeqProduct(_, _, _, _)
SeqProduct(data, window, lo, hi) ==
    IF lo > hi THEN {<<>>}
    ELSE IF lo = hi THEN {<<x>> : x \in MedianCandidates(data, lo, window)}
    ELSE LET mid == (lo + hi) \div 2
         IN  {a \o b : a \in SeqProduct(data, window, lo, mid),
                        b \in SeqProduct(data, window, mid + 1, hi)}

\* the median filter with an even kernel size rounded up to the next odd one
\* instead of falling back to the input
median_filter_RoundsUpKernel(data, window) ==
    SeqProduct(data, IF window % 2 = 0 THEN window + 1 ELSE window, 1, Len(data))

\* the possible results of median_filter: an even kernel size makes medfilt
\* raise ValueError, which the bare except turns into the unfiltered input
median_filter(data, window) ==
    IF window % 2 = 0 THEN {data}
    ELSE SeqProduct(data, window, 1, Len(data))

ButterPadLen == 15   \* filtfilt's default padlen, 3 * (order + 1) for order 4

\* the possible results of butterworth_filter.  filtfilt raises ValueError
\* unless the input is longer than padlen, and the bare except returns the
\* input.  The filtered values of a longer input are not modelled: such a
\* call has no outcome here, which disables the modelled call.
butterworth_filter(data) ==
    IF Len(data) <= ButterPadLen THEN {data} ELSE {}

FilterTypes == {"moving_average", "median", "butterworth", "lowpass"}

\* apply_filter without the test of filter_enabled
apply_filter_IgnoresEnabled(c, data) ==
    IF c.filter_type = "moving_average" THEN {moving_average_filter(data, c.filter_window)}
    ELSE IF c.filter_type = "median" THEN median_filter(data, c.filter_window)
    ELSE IF c.filter_type = "butterworth" THEN butterworth_filter(data)
    ELSE {data}

\* the possible results of apply_filter under configuration c
apply_filter(c, data) ==
    IF ~c.filter_enabled THEN {data}
    ELSE IF c.filter_type = "moving_average" THEN {moving_average_filter(data, c.filter_window)}
    ELSE IF c.filter_type = "median" THEN median_filter(data, c.filter_window)
    ELSE IF c.filter_type = "butterworth" THEN butterworth_filter(data)
    ELSE {data}

----------------------------------------------------------------------------
(* NTCDataProcessor.calculate_statistics *)

StatKeys == {"mean", "std", "min", "max", "range", "median",
             "q25", "q75", "iqr", "samples", "valid_ratio"}

\* The returned dict as a function from its keys; {} is the function with no
\* key.  The entry "std" carries the variance (the square of np.std).
\* the statistics with 'samples' counting every entry, NaN included
stats_of_CountsAll(valid_data, s, total) ==
    LET n == Len(valid_data)
        value(k) ==
            CASE k = "mean" -> nanmean(valid_data)
              [] k = "std" -> nanvar(valid_data)
              [] k = "min" -> s[1]
              [] k = "max" -> s[n]
              [] k = "range" -> RSub(s[n], s[1])
              [] k = "median" -> percentile_sorted(s, 50)
              [] k = "q25" -> percentile_sorted(s, 25)
              [] k = "q75" -> percentile_sorted(s, 75)
              [] k = "iqr" -> RSub(percentile_sorted(s, 75), percentile_sorted(s, 25))
              [] k = "samples" -> R(total)
              [] k = "valid_ratio" -> Norm(n, total)
    IN  [k \in StatKeys |-> value(k)]

stats_of(valid_data, s, total) ==
    LET n == Len(valid_data)
        value(k) ==
            CASE k = "mean" -> nanmean(valid_data)
              [] k = "std" -> nanvar(valid_data)
              [] k = "min" -> s[1]
              [] k = "max" -> s[n]
              [] k = "range" -> RSub(s[n], s[1])
              [] k = "median" -> percentile_sorted(s, 50)
              [] k = "q25" -> percentile_sorted(s, 25)
              [] k = "q75" -> percentile_sorted(s, 75)
              [] k = "iqr" -> RSub(percentile_sorted(s, 75), percentile_sorted(s, 25))
              [] k = "samples" -> R(n)
              [] k = "valid_ratio" -> Norm(n, total)
    IN  [k \in StatKeys |-> value(k)]

\* the statistics giving up (empty dict) as soon as one entry is NaN
calculate_statistics_EmptyOnAnyNaN(data) ==
    LET valid_data == ValidData(data)
    IN  IF Len(valid_data) < Len(data) \/ Len(valid_data) = 0 THEN [k \in {} |-> NaN]
        ELSE stats_of(valid_data, SortAsc(valid_data), Len(data))

calculate_statistics(data) ==
    LET valid_data == ValidData(data)
    IN  IF Len(valid_data) = 0 THEN [k \in {} |-> NaN]
        ELSE stats_of(valid_data, SortAsc(valid_data), Len(data))

----------------------------------------------------------------------------
(* NTCDataProcessor.process_channel_data *)

\* Python None in a field that otherwise holds a float
None == <<0, -1>>

NoTimestamps == [given |-> FALSE, seq |-> <<>>]

Timestamps(ts) == [given |-> TRUE, seq |-> ts]

SteadyWindow == 50        \* detect_steady_state's default window

SteadyGate == 50          \* the steady-state stage runs on more than 50 samples

SteadyThreshold == <<1, 10>>   \* detect_steady_state's default threshold

\* np.nanmax(np.abs(derivative)): NaN (with a RuntimeWarning) if all are NaN
nanmax_abs(derivative) ==
    LET v == ValidData(derivative)
    IN  IF Len(v) = 0 THEN NaN
        ELSE LET a == SortAsc(Array([i \in 1..Len(v) |-> RAbs(v[i])])) IN a[Len(a)]

max_rate_of(derivative) ==
    IF Len(derivative) > 0 THEN nanmax_abs(derivative) ELSE None

NoSteadyState ==
    [present |-> FALSE, index |-> -1, is_steady |-> FALSE, time_to_steady |-> None]

\* the result dict with the steady-state stage gated by len(filtered) >= 50
process_result_GateAtLeast(data, timestamps, removed, filtered) ==
    LET run_steady == timestamps.given /\ Len(filtered) >= SteadyGate
        steady == detect_steady_state(filtered, SteadyWindow, SteadyThreshold)
        \* timestamps[steady_idx]: a 0-based index past the end raises IndexError
        steady_raises == run_steady /\ steady.index >= Len(timestamps.seq)
        steady_state ==
            IF ~run_steady THEN NoSteadyState
            ELSE [present |-> TRUE, index |-> steady.index, is_steady |-> steady.is_steady,
                  time_to_steady |-> IF steady.index >= 0 /\ ~steady_raises
                                     THEN timestamps.seq[steady.index + 1] ELSE None]
        run_derivative == timestamps.given /\ Len(filtered) > 1
        derivative == calculate_derivative(filtered, timestamps.seq)
    IN  IF steady_raises \/ (run_derivative /\ derivative.raised) THEN Raised
        ELSE Returned(
            [raw |-> data,
             cleaned |-> removed.cleaned_data,
             outlier_count |-> CountTrue(removed.outlier_mask),
             filtered |-> filtered,
             statistics |-> calculate_statistics(filtered),
             steady_state |-> steady_state,
             has_derivative |-> run_derivative,
             derivative |-> IF run_derivative THEN derivative.value ELSE <<>>,
             max_rate |-> IF run_derivative THEN max_rate_of(derivative.value) ELSE None])

\* the result dict of process_channel_data given the filter's output; Raised
\* when timestamps[steady_idx] or the derivative's division raises
process_result(data, timestamps, removed, filtered) ==
    LET run_steady == timestamps.given /\ Len(filtered) > SteadyGate
        steady == detect_steady_state(filtered, SteadyWindow, SteadyThreshold)
        \* timestamps[steady_idx]: a 0-based index past the end raises IndexError
        steady_raises == run_steady /\ steady.index >= Len(timestamps.seq)
        steady_state ==
            IF ~run_steady THEN NoSteadyState
            ELSE [present |-> TRUE, index |-> steady.index, is_steady |-> steady.is_steady,
                  time_to_steady |-> IF steady.index >= 0 /\ ~steady_raises
                                     THEN timestamps.seq[steady.index + 1] ELSE None]
        run_derivative == timestamps.given /\ Len(filtered) > 1
        derivative == calculate_derivative(filtered, timestamps.seq)
    IN  IF steady_raises \/ (run_derivative /\ derivative.raised) THEN Raised
        ELSE Returned(
            [raw |-> data,
             cleaned |-> removed.cleaned_data,
             outlier_count |-> CountTrue(removed.outlier_mask),
             filtered |-> filtered,
             statistics |-> calculate_statistics(filtered),
             steady_state |-> steady_state,
             has_derivative |-> run_derivative,
             derivative |-> IF run_derivative THEN derivative.value ELSE <<>>,
             max_rate |-> IF run_derivative THEN max_rate_of(derivative.value) ELSE None])

\* the possible outcomes of process_channel_data(data, timestamps)
process_channel_data(c, data, timestamps) ==
    LET removed == remove_outliers(data, "zscore", c.outlier_threshold)
    IN  {process_result(data, timestamps, removed, filtered) :
            filtered \in apply_filter(c, removed.cleaned_data)}

----------------------------------------------------------------------------
(* NTCDataProcessor.compare_channels *)

MinJointSamples == 10     \* a pair is compared on more than 10 common samples

\* ~(np.isnan(data1) | np.isnan(data2)) as the set of its true indices; a
\* length-1 operand is stretched to the other's length (numpy broadcasting)
joint_valid(data1, data2) ==
    LET at(d, i) == IF Len(d) = 1 THEN d[1] ELSE d[i]
        n == IF Len(data1) = 1 THEN Len(data2) ELSE Len(data1)
    IN  {i \in 1..n : ~IsNaN(at(data1, i)) /\ ~IsNaN(at(data2, i))}

\* data[valid_mask]: the entries at the indices of idx, in order
take(data, idx) ==
    Array([k \in 1..Cardinality(idx) |->
        data[CHOOSE i \in idx : Cardinality({j \in idx : j <= i}) = k]])

\* the pair compared on at least 10 common samples instead of more than 10
pair_outcome_AtLeast(data1, data2) ==
    IF Len(data1) # Len(data2) /\ Len(data1) # 1 /\ Len(data2) # 1 THEN "raise"
    ELSE IF Cardinality(joint_valid(data1, data2)) >= MinJointSamples
         THEN (IF Len(data1) = Len(data2) THEN "emit" ELSE "raise")
         ELSE "skip"

\* what the loop body does with one pair.  Operands of different lengths,
\* neither of length 1, cannot be broadcast: ValueError.  A length-1 operand
\* is broadcast in the mask, but indexing it with the longer mask raises
\* IndexError, which happens only if the pair passes the test.
pair_outcome(data1, data2) ==
    IF Len(data1) # Len(data2) /\ Len(data1) # 1 /\ Len(data2) # 1 THEN "raise"
    ELSE IF Cardinality(joint_valid(data1, data2)) > MinJointSamples
         THEN (IF Len(data1) = Len(data2) THEN "emit" ELSE "raise")
         ELSE "skip"

\* np.corrcoef(valid1, valid2)[0, 1], carried as its square with the sign of
\* the covariance: cov * |cov| / (var1 * var2); NaN when a variance is 0
corrcoef(valid1, valid2) ==
    LET n == Len(valid1)
        m1 == nanmean(valid1)
        m2 == nanmean(valid2)
        cov == RDiv(SumSeq(Array([i \in 1..n |-> RMul(RSub(valid1[i], m1), RSub(valid2[i], m2))])), R(n))
    IN  RDiv(RMul(cov, RAbs(cov)), RMul(nanvar(valid1), nanvar(valid2)))

\* f"{ch1}_vs_{ch2}"
pair_key(ch1, ch2) == ch1 \o "_vs_" \o ch2

\* channel_data is the dict as the sequence of its items [name, data], in
\* insertion order.  An entry of std_difference carries the two variances
\* <<var1, var2>> whose roots the code subtracts.
compare_channels(channel_data) ==
    LET n == Len(channel_data)
        pairs == {p \in (1..n) \X (1..n) : p[1] < p[2]}
        d(i) == channel_data[i].data
        outcome == [p \in pairs |-> pair_outcome(d(p[1]), d(p[2]))]
        emitted == {p \in pairs : outcome[p] = "emit"}
        key(p) == pair_key(channel_data[p[1]].name, channel_data[p[2]].name)
        keys == {key(p) : p \in emitted}
        \* a later pair overwrites an earlier entry under the same key
        last(k) == CHOOSE p \in emitted :
                       /\ key(p) = k
                       /\ \A q \in emitted : key(q) = k =>
                             (q[1] < p[1] \/ (q[1] = p[1] /\ q[2] <= p[2]))
        valid1(p) == take(d(p[1]), joint_valid(d(p[1]), d(p[2])))
        valid2(p) == take(d(p[2]), joint_valid(d(p[1]), d(p[2])))
    IN  IF \E p \in pairs : outcome[p] = "raise" THEN Raised
        ELSE Returned(
            [channel_stats |-> [ch \in {channel_data[i].name : i \in 1..n} |->
                   calculate_statistics(d(CHOOSE i \in 1..n : channel_data[i].name = ch))],
             cross_correlation |-> [k \in keys |-> corrcoef(valid1(last(k)), valid2(last(k)))],
             mean_difference |-> [k \in keys |->
                   RSub(nanmean(valid1(last(k))), nanmean(valid2(last(k))))],
             std_difference |-> [k \in keys |->
                   <<nanvar(valid1(last(k))), nanvar(valid2(last(k)))>>]])

----------------------------------------------------------------------------
(* NTCCalibration: the Beta equation and the Beta value from two points *)

KelvinOffset == <<5463, 20>>     \* 273.15

ClampEpsilon == <<1, 1000>>      \* 0.001

\* resistances whose natural logarithm is a whole number to two decimals:
\* ln 1 = 0, ln 2.72 = 1.00, ln 7.39 = 2.00, ln 20 = 3.00, ln 2981 = 8.00
LogPoints ==
    {<<R(1), 0>>, <<<<68, 25>>, 1>>, <<<<739, 100>>, 2>>, <<R(20), 3>>, <<R(2981), 8>>}

\* ln(p / q) = ln p - ln q for two of these resistances
log_of_ratio(x) ==
    LET pq == CHOOSE pq \in LogPoints \X LogPoints : RDiv(pq[1][1], pq[2][1]) = x
    IN  R(pq[1][2] - pq[2][2])

\* np.log to two decimals, on the ratios the modelled calls produce
np_log(x) ==
    CASE x = <<1, 1>> -> R(0)
      [] x = <<9, 25>> -> <<-51, 50>>
      [] x = <<25, 9>> -> <<51, 50>>
      [] x = <<1, 10>> -> <<-23, 10>>
      [] x = <<10, 1>> -> <<23, 10>>
      [] x = <<5, 18>> -> <<-32, 25>>
      [] x = <<18, 5>> -> <<32, 25>>
      [] x = <<1, 1000>> -> <<-691, 100>>
      [] OTHER -> log_of_ratio(x)

beta_equation(resistance, r0, t0, beta) ==
    LET t0_kelvin == RAdd(t0, KelvinOffset)
        clamped == RMax(resistance, ClampEpsilon)
        ratio == RMax(RDiv(clamped, r0), ClampEpsilon)
        inv_t == RAdd(RDiv(R(1), t0_kelvin), RMul(RDiv(R(1), beta), np_log(ratio)))
        temperature_kelvin == RDiv(R(1), inv_t)
    IN  RSub(temperature_kelvin, KelvinOffset)

calculate_beta_from_points(t1, r1, t2, r2) ==
    LET t1_k == RAdd(t1, KelvinOffset)
        t2_k == RAdd(t2, KelvinOffset)
    IN  RDiv(np_log(RDiv(r2, r1)), RSub(RDiv(R(1), t1_k), RDiv(R(1), t2_k)))

----------------------------------------------------------------------------
(* NTCCalibration: the Steinhart-Hart equation and its least-squares fit *)

\* the equation without the conversion of the result to Celsius
steinhart_hart_equation_Kelvin(resistance, a, b, c) ==
    LET clamped == RMax(resistance, ClampEpsilon)
        ln_r == np_log(clamped)
        inv_t == RAdd(a, RAdd(RMul(b, ln_r), RMul(c, RMul(ln_r, RMul(ln_r, ln_r)))))
    IN  RDiv(R(1), inv_t)

steinhart_hart_equation(resistance, a, b, c) ==
    LET clamped == RMax(resistance, ClampEpsilon)
        ln_r == np_log(clamped)
        inv_t == RAdd(a, RAdd(RMul(b, ln_r), RMul(c, RMul(ln_r, RMul(ln_r, ln_r)))))
        temperature_kelvin == RDiv(R(1), inv_t)
    IN  RSub(temperature_kelvin, KelvinOffset)

Dot(u, v) == SumSeq(Array([i \in 1..Len(u) |-> RMul(u[i], v[i])]))

Det2(m) == RSub(RMul(m[1][1], m[2][2]), RMul(m[1][2], m[2][1]))

Det3(m) ==
    LET minor(i, j, k, l) == RSub(RMul(m[2][i], m[3][j]), RMul(m[2][k], m[3][l]))
    IN  RAdd(RSub(RMul(m[1][1], minor(2, 3, 3, 2)),
                  RMul(m[1][2], minor(1, 3, 3, 1))),
             RMul(m[1][3], minor(1, 2, 2, 1)))

\* the cross product of two vectors of three entries
Cross(u, v) ==
    <<RSub(RMul(u[2], v[3]), RMul(u[3], v[2])),
      RSub(RMul(u[3], v[1]), RMul(u[1], v[3])),
      RSub(RMul(u[1], v[2]), RMul(u[2], v[1]))>>

\* np.linalg.lstsq(x, y, rcond=None)[0] for the design matrix x with rows
\* [1, ln_r, ln_r ** 3]: the least-squares solution, and among several the
\* one of least norm.
\*   rank 3: the solution of the normal equations, by Cramer's rule;
\*   rank 2: the straight-line fit (a, b, 0) less its component along the
\*           null vector of x;
\*   rank 1: all rows equal v; the multiple of v that gives mean(y).
lstsq(ln_r, y) ==
    LET n == Len(ln_r)
        cube(v) == RMul(v, RMul(v, v))
        col == <<Array([i \in 1..n |-> R(1)]),
                 ln_r,
                 Array([i \in 1..n |-> cube(ln_r[i])])>>
        g == Array([p \in 1..3 |-> Array([q \in 1..3 |-> Dot(col[p], col[q])])])
        t == Array([p \in 1..3 |-> Dot(col[p], y)])
        det == Det3(g)
        with(k) == Array([p \in 1..3 |-> Array([q \in 1..3 |-> IF q = k THEN t[p] ELSE g[p][q]])])
        row(i) == <<R(1), ln_r[i], cube(ln_r[i])>>
    IN  IF det[1] # 0 THEN
            Array([k \in 1..3 |-> RDiv(Det3(with(k)), det)])
        ELSE IF \E i, j \in 1..n : ln_r[i] # ln_r[j] THEN
            LET g2 == <<<<g[1][1], g[1][2]>>, <<g[2][1], g[2][2]>>>>
                a0 == RDiv(Det2(<<<<t[1], g[1][2]>>, <<t[2], g[2][2]>>>>), Det2(g2))
                b0 == RDiv(Det2(<<<<g[1][1], t[1]>>, <<g[2][1], t[2]>>>>), Det2(g2))
                ij == CHOOSE ij \in (1..n) \X (1..n) : ln_r[ij[1]] # ln_r[ij[2]]
                null == Cross(row(ij[1]), row(ij[2]))
                along == RDiv(RAdd(RMul(a0, null[1]), RMul(b0, null[2])), Dot(null, null))
            IN  <<RSub(a0, RMul(along, null[1])),
                  RSub(b0, RMul(along, null[2])),
                  RNeg(RMul(along, null[3]))>>
        ELSE
            LET v == row(1)
                scale == RDiv(RDiv(SumSeq(y), R(n)), Dot(v, v))
            IN  Array([k \in 1..3 |-> RMul(scale, v[k])])

\* raise ValueError(message)
ValueError(message) == [raised |-> TRUE, value |-> message]

MinCalibrationPoints == 3

\* the fit with the two checks in the other order
calculate_steinhart_hart_coefficients_LengthsFirst(temperatures, resistances) ==
    IF Len(temperatures) # Len(resistances) THEN ValueError("lengths differ")
    ELSE IF Len(temperatures) < MinCalibrationPoints THEN ValueError("fewer than 3 points")
    ELSE
        LET n == Len(temperatures)
            t_kelvin == Array([i \in 1..n |-> RAdd(temperatures[i], KelvinOffset)])
            ln_r == Array([i \in 1..n |-> np_log(resistances[i])])
            y == Array([i \in 1..n |-> RDiv(R(1), t_kelvin[i])])
        IN  Returned(lstsq(ln_r, y))

\* the coefficients <<a, b, c>>, or the ValueError of the failed check
calculate_steinhart_hart_coefficients(temperatures, resistances) ==
    IF Len(temperatures) < MinCalibrationPoints THEN ValueError("fewer than 3 points")
    ELSE IF Len(temperatures) # Len(resistances) THEN ValueError("lengths differ")
    ELSE
        LET n == Len(temperatures)
            t_kelvin == Array([i \in 1..n |-> RAdd(temperatures[i], KelvinOffset)])
            ln_r == Array([i \in 1..n |-> np_log(resistances[i])])
            y == Array([i \in 1..n |-> RDiv(R(1), t_kelvin[i])])
        IN  Returned(lstsq(ln_r, y))

----------------------------------------------------------------------------
(* NTC_DAQ970A_Test.convert_resistance_to_temperature (ntc_test_daq970a.py) *)

\* Python's `x or default`: the default stands in for None and for every
\* other falsy x, the number 0 included
Or(x, default) == IF x = None \/ x = R(0) THEN default ELSE x

\* the omitted parameters alone replaced by their defaults
OrIfNone(x, default) == IF x = None THEN default ELSE x

convert_resistance_to_temperature(self, resistance, r0, t0, beta) ==
    LET r0_ == Or(r0, self.ntc_params.r0)
        t0_ == Or(t0, self.ntc_params.t0)
        beta_ == Or(beta, self.ntc_params.beta)
        t0_kelvin == RAdd(t0_, KelvinOffset)
        temperature(r) ==
            LET clamped == RMax(r, ClampEpsilon)
                ratio == RMax(RDiv(clamped, r0_), ClampEpsilon)
                inv_t == RAdd(RDiv(R(1), t0_kelvin), RMul(RDiv(R(1), beta_), np_log(ratio)))
                temperature_kelvin == RDiv(R(1), inv_t)
            IN  RSub(temperature_kelvin, KelvinOffset)
    IN  Array([i \in 1..Len(resistance) |-> temperature(resistance[i])])

----------------------------------------------------------------------------
(* The Python floats of the angle functions *)

\* The angle functions add and subtract 360 in a loop, so that the precision
\* of binary64 decides whether the loop makes progress.  An angle is the
\* float sig * 2^exp with sig odd (0 is sig = 0, exp = 0).
RECURSIVE Float(_, _)
Float(sig, exp) ==
    IF sig = 0 THEN [sig |-> 0, exp |-> 0]
    ELSE IF sig % 2 = 0 THEN Float(sig \div 2, exp + 1)
    ELSE [sig |-> sig, exp |-> exp]

\* the number of bits of n >= 0
RECURSIVE BitLen(_)
BitLen(n) == IF n = 0 THEN 0 ELSE 1 + BitLen(n \div 2)

\* |x| < 2^Exponent(x)
Exponent(x) == x.exp + BitLen(Abs(x.sig))

FloatNeg(x) == [sig |-> -x.sig, exp |-> x.exp]

\* x + y rounded to binary64, for the two cases the angle functions meet.
\* Exact: both operands are multiples of 2^e below 2^(e+29), so the sum has
\* fewer than 53 significant bits and is a float.  Absorbed: |y| is below a
\* quarter of the spacing 2^(Exponent(x) - 53) of the floats around x, so x
\* is the float nearest to x + y.  Sums that round to a neighbour of x are
\* not among the modelled inputs.
FloatAdd(x, y) ==
    LET e == IF x.exp < y.exp THEN x.exp ELSE y.exp
    IN  CASE x.sig = 0 -> y
          [] y.sig = 0 -> x
          [] x.sig # 0 /\ y.sig # 0 /\ Exponent(x) - e <= 29 /\ Exponent(y) - e <= 29 ->
                Float(x.sig * 2^(x.exp - e) + y.sig * 2^(y.exp - e), e)
          [] x.sig # 0 /\ y.sig # 0 /\ Exponent(x) - e > 29 /\ Exponent(y) + 55 <= Exponent(x) -> x
          [] x.sig # 0 /\ y.sig # 0 /\ Exponent(y) - e > 29 /\ Exponent(x) + 55 <= Exponent(y) -> y

FloatSub(x, y) == FloatAdd(x, FloatNeg(y))

\* x > y and x < y: the rounded difference has the sign of the exact one
FloatGt(x, y) == FloatSub(x, y).sig > 0

FloatLt(x, y) == FloatSub(x, y).sig < 0

Degrees(n) == Float(n, 0)

\* n / 2 degrees
HalfDegrees(n) == Float(n, -1)

----------------------------------------------------------------------------
(* angle_utils.normalize_angle_deg and angle_diff_deg, and the copies of    *)
(* them in qr_positioning.py and qr_positioning_normalized.py               *)

\* while angle_deg > 180: angle_deg -= 360
RECURSIVE normalize_while_above(_)
normalize_while_above(angle_deg) ==
    IF FloatGt(angle_deg, Degrees(180))
    THEN normalize_while_above(FloatSub(angle_deg, Degrees(360)))
    ELSE angle_deg

\* while angle_deg < -180: angle_deg += 360
RECURSIVE normalize_while_below(_)
normalize_while_below(angle_deg) ==
    IF FloatLt(angle_deg, Degrees(-180))
    THEN normalize_while_below(FloatAdd(angle_deg, Degrees(360)))
    ELSE angle_deg

\* normalize_angle_deg run to its return; the same two loops stand in
\* angle_utils.py, qr_positioning.py and qr_positioning_normalized.py
normalize_angle_deg(angle_deg) == normalize_while_below(normalize_while_above(angle_deg))

\* the difference returned as it is, without the wrap into [-180, 180]
angle_diff_deg_NoWrap(angle1_deg, angle2_deg) ==
    FloatSub(normalize_angle_deg(angle1_deg), normalize_angle_deg(angle2_deg))

\* angle_utils.angle_diff_deg
angle_diff_deg(angle1_deg, angle2_deg) ==
    LET angle1 == normalize_angle_deg(angle1_deg)
        angle2 == normalize_angle_deg(angle2_deg)
        diff == FloatSub(angle1, angle2)
    IN  IF FloatGt(diff, Degrees(180)) THEN FloatSub(diff, Degrees(360))
        ELSE IF FloatLt(diff, Degrees(-180)) THEN FloatAdd(diff, Degrees(360))
        ELSE diff

\* qr_positioning.angle_diff_deg
qr_positioning_angle_diff_deg(angle1_deg, angle2_deg) ==
    LET angle1 == normalize_angle_deg(angle1_deg)
        angle2 == normalize_angle_deg(angle2_deg)
        diff == FloatSub(angle1, angle2)
    IN  IF FloatGt(diff, Degrees(180)) THEN FloatSub(diff, Degrees(360))
        ELSE IF FloatLt(diff, Degrees(-180)) THEN FloatAdd(diff, Degrees(360))
        ELSE diff

\* qr_positioning_normalized.angle_diff_deg
qr_positioning_normalized_angle_diff_deg(angle1_deg, angle2_deg) ==
    LET angle1 == normalize_angle_deg(angle1_deg)
        angle2 == normalize_angle_deg(angle2_deg)
        diff == FloatSub(angle1, angle2)
    IN  IF FloatGt(diff, Degrees(180)) THEN FloatSub(diff, Degrees(360))
        ELSE IF FloatLt(diff, Degrees(-180)) THEN FloatAdd(diff, Degrees(360))
        ELSE diff

----------------------------------------------------------------------------
(* Inputs *)

SeqsUpTo(S, n) == UNION {[1..k -> S] : k \in 0..n}

SampleValues == {NaN, R(0), R(4)}

\* the sequence of the outlier scenario: [1, 2, 3, 4, 100]
ScenarioOutlier == <<R(1), R(2), R(3), R(4), R(100)>>

SampleSeqs == SeqsUpTo(SampleValues, MaxLen) \cup {ScenarioOutlier}

\* timestamps in seconds, monotonically non-decreasing
TimestampSeqs ==
    {ts \in SeqsUpTo({R(0), R(1), R(2)}, MaxLen) :
        \A i \in 1..(Len(ts) - 1) : RLe(ts[i], ts[i + 1])}

\* 0, 1, ..., n-1
Iota(n) == Array([i \in 1..n |-> R(i - 1)])

\* n equal timestamps
Zeros(n) == Array([i \in 1..n |-> R(0)])

\* 0, 0, 1, ..., n-2: the first reading repeated
Stall(n) == Array([i \in 1..n |-> IF i = 1 THEN R(0) ELSE R(i - 2)])

\* n samples: k zeros, then ones
Step(k, n) == Array([i \in 1..n |-> IF i <= k THEN R(0) ELSE R(1)])

LongSeqs == {Step(k, n) : k \in 0..1, n \in {SteadyGate, SteadyGate + 1, SteadyGate + 2}}

OutlierThresholds == {R(1), R(3)}

ScanThresholds == {SteadyThreshold, R(3)}

FilterWindows == {2, 3}

\* the processors __init__ can build
Configs ==
    [filter_enabled : BOOLEAN,
     filter_type : FilterTypes,
     filter_window : FilterWindows,
     outlier_threshold : OutlierThresholds]

DefaultFilter(c) == c.filter_type = "moving_average" /\ c.filter_window = 2

\* processors that differ in outlier_threshold alone, the one field
\* remove_outliers reads
ThresholdConfigs == {c \in Configs : c.filter_enabled /\ DefaultFilter(c)}

\* processors that differ in filter_window alone, the one field
\* moving_average_filter reads
WindowConfigs ==
    {c \in Configs : c.filter_enabled /\ c.filter_type = "moving_average"
                        /\ c.outlier_threshold = R(3)}

\* one processor for each way apply_filter can run: the window matters to the
\* moving average and the median only, and nothing but outlier_threshold
\* matters when the filter is disabled
PipelineConfigs ==
    {c \in Configs :
        /\ ~c.filter_enabled => DefaultFilter(c)
        /\ c.filter_type \in {"butterworth", "lowpass"} => c.filter_window = 2}

\* the steady-state stage is tried on these
LongConfigs == {c \in PipelineConfigs : c.outlier_threshold = R(3)}

\* the channels given to the whole pipeline
ChannelSeqs == SeqsUpTo(SampleValues, MaxChannelLen)

ChannelTimestampSeqs == UNION {{Iota(n), Zeros(n), Stall(n)} : n \in 0..MaxChannelLen}

MaxChannels == 3     \* most channels given to compare_channels

\* samples per compared channel: two more than the comparison needs to skip
CompareLen == MinJointSamples + 2

\* s with NaN at index k
Gap(s, k) == Array([i \in 1..Len(s) |-> IF i = k THEN NaN ELSE s[i]])

\* channels of 12 samples with 12 or 11 valid ones, so that two of them have
\* 12, 11 or exactly 10 valid samples in common; a channel of 11 samples and
\* a channel of one sample
CompareSeqs ==
    {Iota(CompareLen),
     Gap(Iota(CompareLen), 1),
     Gap(Step(6, CompareLen), 2),
     Step(0, CompareLen),
     Iota(CompareLen - 1),
     <<R(1)>>}

ChannelName(i) == "CH" \o ToString(i)

\* the k channel names in ascending and in descending order of insertion
NameOrders(k) ==
    {Array([i \in 1..k |-> ChannelName(i)]), Array([i \in 1..k |-> ChannelName(k + 1 - i)])}

\* the dicts channel name -> samples given to compare_channels
ChannelDicts ==
    UNION {{Array([i \in 1..k |-> [name |-> names[i], data |-> datas[i]]]) :
               names \in NameOrders(k), datas \in [1..k -> CompareSeqs]} : k \in 0..MaxChannels}

MaxPoints == 4       \* most calibration points given to the Steinhart-Hart fit

\* the temperature in Celsius of k kelvin
Celsius(k) == RSub(k, KelvinOffset)

\* n calibration temperatures, falling from 375 K: 1500 / (i + 3) kelvin
TemperatureRamp(n) == Array([i \in 1..n |-> Celsius(Norm(1500, i + 3))])

\* the resistances of calibration points
PointResistances == {R(1), <<68, 25>>, <<739, 100>>, R(20)}

\* resistance lists for the fit alone: repeated values allowed
FitResistanceLists == SeqsUpTo({R(1), <<68, 25>>, R(20)}, MaxPoints)

\* lists of 3 or more distinct resistances
DistinctResistanceLists ==
    {rs \in UNION {[1..k -> PointResistances] : k \in MinCalibrationPoints..MaxPoints} :
        \A i, j \in 1..Len(rs) : i # j => rs[i] # rs[j]}

\* the known Beta equations of the round trip: reference 20 ohm or 2981 ohm
\* at 300 K, Beta 3000 K
BetaEquations == [r0 : {R(20), R(2981)}, t0 : {Celsius(R(300))}, beta : {R(3000)}]

Temperatures == {R(0), R(25), R(50)}

Resistances == {R(10000), R(3600), R(1000)}

MaxTurns == 2        \* the enumerated angles reach MaxTurns + 1 half turns either way

\* whole degrees at and around the multiples of 180 (179, 180, 181, 350, 360,
\* 540, ...), and half degrees at and around the two boundaries
Angles ==
    {Degrees(180 * k + j) : k \in -(MaxTurns + 1)..(MaxTurns + 1), j \in {-10, -1, 0, 1, 10}}
        \cup {HalfDegrees(n) : n \in {-361, -359, -1, 1, 359, 361}}

\* floats so large that the floats next to them are more than 720 apart
HugeAngles == {Float(1, 64), Float(-1, 64), Float(3, 70)}

\* the NTC parameters of the configuration file
NtcParams == [r0 : {R(20)}, t0 : {Celsius(R(300))}, beta : {R(3000)}]

\* resistance arrays handed to the conversion
ConvertResistances == {<<r>> : r \in PointResistances} \cup {<<R(1), R(20)>>}


---------------------------------------------------------------------------------------------------------------------------------------------------
(* The calls.  Every method is a pure function of its arguments and of the  *)
(* processor's fields, so a behaviour is a series of independent calls:     *)
(* a call is made from the idle state and its result is handed back.        *)

Idle == op = "idle"

Init ==
    /\ op = "idle"
    /\ args = <<>>
    /\ ret = Returned(<<>>)

Call_remove_outliers ==
    /\ Idle
    /\ \E self \in ThresholdConfigs, data \in SampleSeqs, method \in {"zscore", "iqr", "mad"} :
        /\ op' = "remove_outliers"
        /\ args' = [self |-> self, data |-> data, method |-> method]
        /\ ret' = Returned(remove_outliers(data, method, self.outlier_threshold))

\* moving_average_filter(data, window) with an explicit window
Call_moving_average_filter ==
    /\ Idle
    /\ \E data \in SampleSeqs, window \in 1..MaxWindow :
        /\ op' = "moving_average_filter"
        /\ args' = [data |-> data, window |-> window]
        /\ ret' = Returned(moving_average_filter(data, window))

\* moving_average_filter(data): window is None and becomes self.filter_window
Call_moving_average_filter_default ==
    /\ Idle
    /\ \E self \in WindowConfigs, data \in SampleSeqs :
        /\ op' = "moving_average_filter"
        /\ args' = [self |-> self, data |-> data, window |-> self.filter_window]
        /\ ret' = Returned(moving_average_filter(data, self.filter_window))

Call_calculate_derivative ==
    /\ Idle
    /\ \E data \in SampleSeqs, ts \in TimestampSeqs :
        /\ op' = "calculate_derivative"
        /\ args' = [data |-> data, timestamps |-> ts]
        /\ ret' = calculate_derivative(data, ts)

Call_detect_steady_state ==
    /\ Idle
    /\ \E data \in SampleSeqs, window \in 1..MaxWindow, threshold \in ScanThresholds :
        /\ op' = "detect_steady_state"
        /\ args' = [data |-> data, window |-> window, threshold |-> threshold]
        /\ ret' = Returned(detect_steady_state(data, window, threshold))

\* median_filter(data, window) with an explicit window
Call_median_filter ==
    /\ Idle
    /\ \E data \in ChannelSeqs, window \in 1..MaxWindow :
        \E r \in median_filter(data, window) :
            /\ op' = "median_filter"
            /\ args' = [data |-> data, window |-> window]
            /\ ret' = Returned(r)

Call_apply_filter ==
    /\ Idle
    /\ \E self \in Configs, data \in ChannelSeqs :
        \E r \in apply_filter(self, data) :
            /\ op' = "apply_filter"
            /\ args' = [self |-> self, data |-> data]
            /\ ret' = Returned(r)

Call_calculate_statistics ==
    /\ Idle
    /\ \E data \in SampleSeqs :
        /\ op' = "calculate_statistics"
        /\ args' = [data |-> data]
        /\ ret' = Returned(calculate_statistics(data))

Call_compare_channels ==
    /\ Idle
    /\ \E channel_data \in ChannelDicts :
        /\ op' = "compare_channels"
        /\ args' = [channel_data |-> channel_data]
        /\ ret' = compare_channels(channel_data)

Call_process_channel_data ==
    /\ Idle
    /\ \E self \in PipelineConfigs, data \in ChannelSeqs,
          timestamps \in {NoTimestamps} \cup {Timestamps(ts) : ts \in ChannelTimestampSeqs} :
        \E r \in process_channel_data(self, data, timestamps) :
            /\ op' = "process_channel_data"
            /\ args' = [self |-> self, data |-> data, timestamps |-> timestamps]
            /\ ret' = r

\* a channel long enough for the steady-state stage
Call_process_channel_data_long ==
    /\ Idle
    /\ \E self \in LongConfigs, data \in LongSeqs :
        \E timestamps \in {Timestamps(Iota(Len(data))), Timestamps(Iota(2))} :
            \E r \in process_channel_data(self, data, timestamps) :
                /\ op' = "process_channel_data"
                /\ args' = [self |-> self, data |-> data, timestamps |-> timestamps]
                /\ ret' = r

\* the calibration run of ntc_calibration's example: Beta from two calibration
\* points, then the Beta equation with the first point as reference, evaluated
\* at both resistances
Call_calibrate_beta ==
    /\ Idle
    /\ \E t1 \in Temperatures, t2 \in Temperatures, r1 \in Resistances, r2 \in Resistances :
        /\ t1 # t2
        /\ r1 # r2
        /\ op' = "calculate_beta_from_points"
        /\ args' = [t1 |-> t1, r1 |-> r1, t2 |-> t2, r2 |-> r2]
        /\ LET beta == calculate_beta_from_points(t1, r1, t2, r2)
           IN  ret' = Returned([beta |-> beta,
                                at_r1 |-> beta_equation(r1, r1, t1, beta),
                                at_r2 |-> beta_equation(r2, r1, t1, beta)])

Call_calculate_steinhart_hart_coefficients ==
    /\ Idle
    /\ \E k \in 0..MaxPoints, resistances \in FitResistanceLists :
        /\ op' = "calculate_steinhart_hart_coefficients"
        /\ args' = [temperatures |-> TemperatureRamp(k), resistances |-> resistances]
        /\ ret' = calculate_steinhart_hart_coefficients(TemperatureRamp(k), resistances)

\* the calibration round trip: temperatures from a known Beta equation at the
\* given resistances, the Steinhart-Hart fit of these points, and the fitted
\* equation evaluated at the same resistances
Call_steinhart_hart_round_trip ==
    /\ Idle
    /\ \E known \in BetaEquations, resistances \in DistinctResistanceLists :
        LET n == Len(resistances)
            temperatures == Array([i \in 1..n |->
                beta_equation(resistances[i], known.r0, known.t0, known.beta)])
            fit == calculate_steinhart_hart_coefficients(temperatures, resistances)
        IN  /\ op' = "steinhart_hart_round_trip"
            /\ args' = [known |-> known, resistances |-> resistances]
            /\ ret' = Returned(
                 [temperatures |-> temperatures,
                  coefficients |-> fit.value,
                  round_trip |-> Array([i \in 1..n |->
                      steinhart_hart_equation(resistances[i],
                                              fit.value[1], fit.value[2], fit.value[3])])])

Call_normalize_angle_deg ==
    /\ Idle
    /\ \E angle_deg \in Angles :
        /\ op' = "normalize_angle_deg"
        /\ args' = [angle_deg |-> angle_deg]
        /\ ret' = Returned(normalize_angle_deg(angle_deg))

Call_angle_diff_deg ==
    /\ Idle
    /\ \E angle1_deg \in Angles, angle2_deg \in Angles :
        /\ op' = "angle_diff_deg"
        /\ args' = [angle1_deg |-> angle1_deg, angle2_deg |-> angle2_deg]
        /\ ret' = Returned(angle_diff_deg(angle1_deg, angle2_deg))

Call_qr_positioning_angle_diff_deg ==
    /\ Idle
    /\ \E angle1_deg \in Angles, angle2_deg \in Angles :
        /\ op' = "qr_positioning.angle_diff_deg"
        /\ args' = [angle1_deg |-> angle1_deg, angle2_deg |-> angle2_deg]
        /\ ret' = Returned(qr_positioning_angle_diff_deg(angle1_deg, angle2_deg))

Call_qr_positioning_normalized_angle_diff_deg ==
    /\ Idle
    /\ \E angle1_deg \in Angles, angle2_deg \in Angles :
        /\ op' = "qr_positioning_normalized.angle_diff_deg"
        /\ args' = [angle1_deg |-> angle1_deg, angle2_deg |-> angle2_deg]
        /\ ret' = Returned(qr_positioning_normalized_angle_diff_deg(angle1_deg, angle2_deg))

\* convert_resistance_to_temperature with each of r0, t0, beta passed or omitted
Call_convert_resistance_to_temperature ==
    /\ Idle
    /\ \E ntc_params \in NtcParams, resistance \in ConvertResistances,
          r0 \in {None, R(1), R(20)},
          t0 \in {None, R(0), Celsius(R(300)), Celsius(R(375))},
          beta \in {None, R(1500), R(3000)} :
        LET self == [ntc_params |-> ntc_params]
        IN  /\ op' = "convert_resistance_to_temperature"
            /\ args' = [self |-> self, resistance |-> resistance,
                        r0 |-> r0, t0 |-> t0, beta |-> beta]
            /\ ret' = Returned(convert_resistance_to_temperature(self, resistance, r0, t0, beta))

\* the caller takes the result; the processor keeps nothing of the call
Return ==
    /\ ~Idle
    /\ op' = "idle"
    /\ args' = <<>>
    /\ ret' = Returned(<<>>)

Next ==
    \/ Call_remove_outliers
    \/ Call_moving_average_filter
    \/ Call_moving_average_filter_default
    \/ Call_calculate_derivative
    \/ Call_detect_steady_state
    \/ Call_median_filter
    \/ Call_apply_filter
    \/ Call_calculate_statistics
    \/ Call_compare_channels
    \/ Call_process_channel_data
    \/ Call_process_channel_data_long
    \/ Call_calibrate_beta
    \/ Call_calculate_steinhart_hart_coefficients
    \/ Call_steinhart_hart_round_trip
    \/ Call_convert_resistance_to_temperature
    \/ Call_normalize_angle_deg
    \/ Call_angle_diff_deg
    \/ Call_qr_positioning_angle_diff_deg
    \/ Call_qr_positioning_normalized_angle_diff_deg
    \/ Return

Spec == Init /\ [][Next]_vars

----------------------------------------------------------------------------
(* normalize_angle_deg statement by statement (angle_utils.py, lines 29 to  *)
(* 33): op is the line about to run, args.angle_deg the local the loops     *)
(* rebind, args.given the value the caller passed.                          *)

normalize_angle_deg_call ==
    /\ Idle
    /\ \E angle_deg \in Angles \cup HugeAngles :
        /\ op' = "normalize_angle_deg:29"
        /\ args' = [given |-> angle_deg, angle_deg |-> angle_deg]
        /\ UNCHANGED ret

\* while angle_deg > 180:
normalize_angle_deg_line29 ==
    /\ op = "normalize_angle_deg:29"
    /\ op' = IF FloatGt(args.angle_deg, Degrees(180))
             THEN "normalize_angle_deg:30" ELSE "normalize_angle_deg:31"
    /\ UNCHANGED <<args, ret>>

\*     angle_deg -= 360
normalize_angle_deg_line30 ==
    /\ op = "normalize_angle_deg:30"
    /\ args' = [args EXCEPT !.angle_deg = FloatSub(@, Degrees(360))]
    /\ op' = "normalize_angle_deg:29"
    /\ UNCHANGED ret

\* while angle_deg < -180:
normalize_angle_deg_line31 ==
    /\ op = "normalize_angle_deg:31"
    /\ op' = IF FloatLt(args.angle_deg, Degrees(-180))
             THEN "normalize_angle_deg:32" ELSE "normalize_angle_deg:33"
    /\ UNCHANGED <<args, ret>>

\*     angle_deg += 360
normalize_angle_deg_line32 ==
    /\ op = "normalize_angle_deg:32"
    /\ args' = [args EXCEPT !.angle_deg = FloatAdd(@, Degrees(360))]
    /\ op' = "normalize_angle_deg:31"
    /\ UNCHANGED ret

\* return angle_deg
normalize_angle_deg_line33 ==
    /\ op = "normalize_angle_deg:33"
    /\ op' = "normalize_angle_deg:returned"
    /\ ret' = Returned(args.angle_deg)
    /\ UNCHANGED args

\* the caller takes the result
normalize_angle_deg_done ==
    /\ op = "normalize_angle_deg:returned"
    /\ op' = "idle"
    /\ args' = <<>>
    /\ ret' = Returned(<<>>)

AngleNext ==
    \/ normalize_angle_deg_call
    \/ normalize_angle_deg_line29
    \/ normalize_angle_deg_line30
    \/ normalize_angle_deg_line31
    \/ normalize_angle_deg_line32
    \/ normalize_angle_deg_line33
    \/ normalize_angle_deg_done

\* the interpreter always runs the next statement
AngleSpec == Init /\ [][AngleNext]_vars /\ WF_vars(AngleNext)

----------------------------------------------------------------------------
(* process_channel_data on arrays as objects, called concurrently.           *)
(*                                                                          *)
(* A numpy array is an object: two names may hold the same array, and a     *)
(* write through one is seen through the other.  The store maps references  *)
(* to arrays; a reference is an index into it (0 is None).  The caller's    *)
(* arrays come first, then for each call the arrays it allocates: every     *)
(* allocation gets storage of its own, an empty slot until then.  In this   *)
(* specification                                                            *)
(*   op[t]      is the line call t of process_channel_data is about to run, *)
(*   args.self  the four fields of the one processor all calls share,       *)
(*   args.store the store,                                                  *)
(*   args.calls the references each call was passed,                        *)
(*   args.given what the caller built: the values given to __init__ and the *)
(*              contents of its arrays when it made the calls,              *)
(*   ret[t]     the locals of call t and, once it returned, its result.     *)

MaxCalls == 2        \* calls of process_channel_data running at the same time

CallIds == 1..MaxCalls

Store == args.store

\* the arrays one call allocates: raw (line 209), cleaned_data (line 60) and
\* the filter's output (lines 76, 92)
Allocations == <<"raw", "cleaned_data", "filtered">>

\* the storage of the k-th array call t allocates, behind the caller's arrays
NewArray(t, k) ==
    Len(args.given.samples) + Len(args.given.times) + Len(Allocations) * (t - 1) + k

\* a new array holding value, at the storage the allocator hands out
store_alloc(store, new, value) == [store |-> [store EXCEPT ![new] = value], ref |-> new]

\* data.copy() that hands back the array itself
ndarray_copy_SameStorage(store, new, ref) == [store |-> store, ref |-> ref]

\* data.copy()
ndarray_copy(store, new, ref) == store_alloc(store, new, store[ref])

\* cleaned_data[outlier_mask] = np.nan
masked_write_nan(store, ref, mask) ==
    [store EXCEPT ![ref] = Array([i \in 1..Len(@) |-> IF mask[i] THEN NaN ELSE @[i]])]

\* moving_average_filter: the input itself when no sample is valid, else a
\* new array of NaN that receives the filtered valid samples
moving_average_filter_store(store, new, data, window) ==
    LET valid_data == ValidData(store[data])
        full == store_alloc(store, new, Array([i \in 1..Len(store[data]) |-> NaN]))
    IN  IF Len(valid_data) = 0 THEN [store |-> store, ref |-> data]
        ELSE IF Len(valid_data) >= window
        THEN [store |-> [full.store EXCEPT
                            ![full.ref] = moving_average_filter(store[data], window)],
              ref |-> full.ref]
        ELSE full

\* median_filter: medfilt's new array, or the input itself after the except
median_filter_store(store, new, data, window) ==
    IF window % 2 = 0 THEN {[store |-> store, ref |-> data]}
    ELSE {store_alloc(store, new, r) : r \in median_filter(store[data], window)}

\* butterworth_filter: the input itself after the except (longer inputs are
\* not modelled, as in butterworth_filter)
butterworth_filter_store(store, new, data) ==
    IF Len(store[data]) <= ButterPadLen THEN {[store |-> store, ref |-> data]} ELSE {}

apply_filter_store(self, store, new, data) ==
    IF ~self.filter_enabled THEN {[store |-> store, ref |-> data]}
    ELSE IF self.filter_type = "moving_average"
    THEN {moving_average_filter_store(store, new, data, self.filter_window)}
    ELSE IF self.filter_type = "median"
    THEN median_filter_store(store, new, data, self.filter_window)
    ELSE IF self.filter_type = "butterworth" THEN butterworth_filter_store(store, new, data)
    ELSE {[store |-> store, ref |-> data]}

NoLocals ==
    [raw |-> 0, cleaned |-> 0, outlier_mask |-> <<>>, filtered |-> 0,
     result |-> Returned(<<>>)]

\* `cleaned` kept in a field of the processor: the array another call left
\* there, if any
cleaned_of_ProcessorField(locals, t) ==
    IF \E u \in CallIds \ {t} : locals[u].cleaned # 0
    THEN locals[CHOOSE u \in CallIds \ {t} : locals[u].cleaned # 0].cleaned
    ELSE locals[t].cleaned

\* the local variable `cleaned` of call t
cleaned_of(locals, t) == locals[t].cleaned

\* the processors and channels of the concurrent calls
StoreConfigs ==
    {c \in Configs :
        /\ c.outlier_threshold = R(1)
        /\ ~c.filter_enabled => c.filter_type = "moving_average" /\ c.filter_window = 3
        /\ c.filter_enabled /\ c.filter_type \in {"butterworth", "lowpass"} => c.filter_window = 3}

\* an outlier that is removed, no valid sample, and two samples kept as they are
StoreSeqs == {<<R(0), R(0), R(4)>>, <<NaN, NaN>>, <<R(4), R(0)>>}

\* storage not yet allocated
Unallocated == Array([k \in 1..(Len(Allocations) * MaxCalls) |-> <<>>])

\* the caller's arrays: the samples of each call, then (if given) its timestamps
StoreInit ==
    \E c \in StoreConfigs, samples \in [CallIds -> StoreSeqs], with_timestamps \in BOOLEAN :
        LET times == IF with_timestamps
                     THEN Array([t \in CallIds |-> Iota(Len(samples[t]))]) ELSE <<>>
        IN  /\ op = Array([t \in CallIds |-> "209"])
            /\ args = [self |-> c,
                       store |-> samples \o times \o Unallocated,
                       calls |-> Array([t \in CallIds |->
                                   [data |-> t,
                                    timestamps |-> IF with_timestamps THEN MaxCalls + t ELSE 0]]),
                       given |-> [config |-> c, samples |-> samples \o <<>>, times |-> times]]
            /\ ret = Array([t \in CallIds |-> NoLocals])

\* 'raw': data.copy()
process_channel_data_line209 ==
    \E t \in CallIds :
        /\ op[t] = "209"
        /\ LET copied == ndarray_copy(Store, NewArray(t, 1), args.calls[t].data)
           IN  /\ args' = [args EXCEPT !.store = copied.store]
               /\ ret' = [ret EXCEPT ![t].raw = copied.ref]
        /\ op' = [op EXCEPT ![t] = "60"]

\* remove_outliers, lines 48 to 60: the mask, and cleaned_data = data.copy()
remove_outliers_line60 ==
    \E t \in CallIds :
        /\ op[t] = "60"
        /\ LET data == args.calls[t].data
               copied == ndarray_copy(Store, NewArray(t, 2), data)
           IN  /\ args' = [args EXCEPT !.store = copied.store]
               /\ ret' = [ret EXCEPT
                            ![t].cleaned = copied.ref,
                            ![t].outlier_mask =
                                outlier_mask_of(Store[data], "zscore", args.self.outlier_threshold)]
        /\ op' = [op EXCEPT ![t] = "61"]

\* remove_outliers, line 61: cleaned_data[outlier_mask] = np.nan
remove_outliers_line61 ==
    \E t \in CallIds :
        /\ op[t] = "61"
        /\ args' = [args EXCEPT
                      !.store = masked_write_nan(Store, ret[t].cleaned, ret[t].outlier_mask)]
        /\ op' = [op EXCEPT ![t] = "222"]
        /\ UNCHANGED ret

\* filtered = self.apply_filter(cleaned)
process_channel_data_line222 ==
    \E t \in CallIds :
        /\ op[t] = "222"
        /\ \E f \in apply_filter_store(args.self, Store, NewArray(t, 3), cleaned_of(ret, t)) :
            /\ args' = [args EXCEPT !.store = f.store]
            /\ ret' = [ret EXCEPT ![t].filtered = f.ref]
        /\ op' = [op EXCEPT ![t] = "226"]

\* lines 226 to 243: statistics, steady state and derivative of the filtered
\* array, and the return of the result dict
process_channel_data_line226 ==
    \E t \in CallIds :
        /\ op[t] = "226"
        /\ LET call == args.calls[t]
               timestamps == IF call.timestamps = 0 THEN NoTimestamps
                             ELSE Timestamps(Store[call.timestamps])
               removed == [cleaned_data |-> Store[ret[t].cleaned],
                           outlier_mask |-> ret[t].outlier_mask]
           IN  ret' = [ret EXCEPT ![t].result =
                          process_result(Store[ret[t].raw], timestamps, removed,
                                         Store[ret[t].filtered])]
        /\ op' = [op EXCEPT ![t] = "returned"]
        /\ UNCHANGED args

\* every call has returned: the caller drops the results and makes the same
\* calls again, on its arrays as they are now
process_channel_data_again ==
    /\ \A t \in CallIds : op[t] = "returned"
    /\ op' = Array([t \in CallIds |-> "209"])
    /\ args' = [args EXCEPT
                  !.store = SubSeq(@, 1, Len(args.given.samples) + Len(args.given.times))
                                \o Unallocated]
    /\ ret' = Array([t \in CallIds |-> NoLocals])

StoreNext ==
    \/ process_channel_data_line209
    \/ remove_outliers_line60
    \/ remove_outliers_line61
    \/ process_channel_data_line222
    \/ process_channel_data_line226
    \/ process_channel_data_again

StoreSpec == StoreInit /\ [][StoreNext]_vars

----------------------------------------------------------------------------
(* Properties of remove_outliers *)

CalledRemoveOutliers == op = "remove_outliers" /\ ~ret.raised

AllFalse(mask) == \A i \in 1..Len(mask) : ~mask[i]

\* C1: for every sample sequence and every method, the mask and the cleaned
\* sequence returned by remove_outliers have the input's length, the number of
\* true mask entries equals the NaN count of cleaned minus the NaN count of the
\* input, and an index that is NaN in the input is never flagged.
C1_MaskCountsNewNaN ==
    op = "remove_outliers" =>
        /\ ~ret.raised
        /\ Len(ret.value.outlier_mask) = Len(args.data)
        /\ Len(ret.value.cleaned_data) = Len(args.data)
        /\ CountTrue(ret.value.outlier_mask)
              = CountNaN(ret.value.cleaned_data) - CountNaN(args.data)
        /\ \A i \in 1..Len(args.data) : IsNaN(args.data[i]) => ~ret.value.outlier_mask[i]

\* a call on a sequence holding a NaN that flags some other sample
C1_Witness ==
    /\ CalledRemoveOutliers
    /\ \E i \in 1..Len(args.data) : IsNaN(args.data[i])
    /\ \E i \in 1..Len(args.data) : ret.value.outlier_mask[i]

IsOutlierScenario ==
    /\ CalledRemoveOutliers
    /\ args.data = ScenarioOutlier
    /\ args.method = "zscore"
    /\ args.self.outlier_threshold = R(3)

\* C2 as stated: on [1, 2, 3, 4, 100] with zscore and threshold 3.0 the mask
\* is [false, false, false, false, true].
C2_Original ==
    IsOutlierScenario => ret.value.outlier_mask = <<FALSE, FALSE, FALSE, FALSE, TRUE>>

\* C2 amended: on [1, 2, 3, 4, 100] with zscore and threshold 3.0 no index is
\* flagged and cleaned equals the input: the z-score of 100 is 78 / sqrt(1522),
\* about 2.0, which does not exceed 3.0.
C2_ScenarioFlagsNothing ==
    IsOutlierScenario =>
        /\ ret.value.outlier_mask = <<FALSE, FALSE, FALSE, FALSE, FALSE>>
        /\ ret.value.cleaned_data = ScenarioOutlier

C2_Witness == IsOutlierScenario

\* all non-NaN samples are equal: the standard deviation is 0, or undefined
\* when there is none
ZeroOrUndefinedStd(data) ==
    \A i, j \in 1..Len(data) : (~IsNaN(data[i]) /\ ~IsNaN(data[j])) => data[i] = data[j]

C16_UnknownMethodNoOp ==
    (op = "remove_outliers" /\ args.method \notin {"zscore", "iqr"}) =>
        /\ ~ret.raised
        /\ Len(ret.value.outlier_mask) = Len(args.data)
        /\ AllFalse(ret.value.outlier_mask)
        /\ ret.value.cleaned_data = args.data

\* a call with an unknown method on a sequence in which the iqr method flags
\* a sample
C16_Witness ==
    /\ CalledRemoveOutliers
    /\ args.method \notin {"zscore", "iqr"}
    /\ ~AllFalse(outlier_mask_of(args.data, "iqr", args.self.outlier_threshold))
    /\ ret.value.cleaned_data = args.data

----------------------------------------------------------------------------
(* Properties of moving_average_filter *)

\* C4: moving_average_filter returns its input element for element whenever
\* the number of non-NaN samples is smaller than the window.
C4_Claim ==
    (op = "moving_average_filter" /\ Len(ValidData(args.data)) < args.window) =>
        (~ret.raised /\ ret.value = args.data)

----------------------------------------------------------------------------
(* Properties of median_filter and apply_filter *)

KnownFilterTypes == {"moving_average", "median", "butterworth"}

\* C14: apply_filter raises nothing and returns its input unchanged whenever
\* filter_enabled is false, whatever filter_type and filter_window are, and
\* whenever filter_type is none of moving_average, median, butterworth.
C14_IdentityWhenDisabledOrUnknown ==
    (op = "apply_filter"
        /\ (~args.self.filter_enabled \/ args.self.filter_type \notin KnownFilterTypes)) =>
        (~ret.raised /\ ret.value = args.data)

\* the input has at least window valid samples, not all equal: the moving
\* average of the configuration would change it
WouldBeSmoothed(c, data) ==
    /\ Len(ValidData(data)) >= c.filter_window
    /\ moving_average_filter(data, c.filter_window) # data

\* a disabled moving-average configuration applied to an input that the
\* enabled filter would have changed
C14_Witness ==
    /\ op = "apply_filter"
    /\ ~args.self.filter_enabled
    /\ args.self.filter_type = "moving_average"
    /\ WouldBeSmoothed(args.self, args.data)
    /\ ret.value = args.data

\* an enabled configuration of unknown kind applied to a non-empty input
C14_WitnessUnknown ==
    /\ op = "apply_filter"
    /\ args.self.filter_enabled
    /\ args.self.filter_type \notin KnownFilterTypes
    /\ ~AllNaN(args.data)
    /\ ret.value = args.data

\* C15: median_filter never raises; with an even window, where the windowed
\* median cannot be applied, it returns the input unchanged, and with an odd
\* window it returns a sequence of the input's length.
C15_MedianNeverRaises ==
    op = "median_filter" =>
        /\ ~ret.raised
        /\ args.window % 2 = 0 => ret.value = args.data
        /\ args.window % 2 = 1 => Len(ret.value) = Len(args.data)

\* a call with an even window on an input that the window rounded up to the
\* next odd size would have changed
C15_Witness ==
    /\ op = "median_filter"
    /\ args.window % 2 = 0
    /\ args.data \notin median_filter_RoundsUpKernel(args.data, args.window)
    /\ ret.value = args.data

\* a call with an odd window that changes the input
C15_WitnessOdd ==
    /\ op = "median_filter"
    /\ args.window % 2 = 1
    /\ ret.value # args.data

----------------------------------------------------------------------------
(* Properties of detect_steady_state *)

IsConstant(data) ==
    /\ \A i \in 1..Len(data) : ~IsNaN(data[i])
    /\ \A i, j \in 1..Len(data) : data[i] = data[j]

\* C5: on every strictly constant sequence at least as long as the window
\* (the length equal to the window included) and for every threshold > 0,
\* detect_steady_state returns (window, true).
C5_Claim ==
    (/\ op = "detect_steady_state"
     /\ IsConstant(args.data)
     /\ Len(args.data) >= args.window
     /\ RGt(args.threshold, R(0))) =>
        ret.value = [index |-> args.window, is_steady |-> TRUE]

\* the positions i at which a full window data[i-window .. i-1] (0-based) is
\* complete and has a NaN-ignoring standard deviation strictly below threshold;
\* i = Len(data) is the window made of the last `window` samples
QualifyingWindows(data, window, threshold) ==
    {i \in window..Len(data) :
        LET w == SubSeq(data, i - window + 1, i)
            valid == ValidData(w)
            mean == RDiv(SumSeq(valid), R(Len(valid)))
            sq == Array([k \in 1..Len(valid) |-> RMul(RSub(valid[k], mean), RSub(valid[k], mean))])
        IN  /\ Len(valid) > 0
            /\ RLt(RDiv(SumSeq(sq), R(Len(valid))), RMul(threshold, threshold))}

\* C6: detect_steady_state is a first-match scan over all full windows, the
\* last one included: it returns (i, true) for the first qualifying position i
\* and (-1, false) only when no full window qualifies.
C6_Claim ==
    op = "detect_steady_state" =>
        LET q == QualifyingWindows(args.data, args.window, args.threshold)
        IN  IF q = {} THEN ret.value = [index |-> -1, is_steady |-> FALSE]
            ELSE ret.value = [index |-> SetMin(q), is_steady |-> TRUE]

----------------------------------------------------------------------------
(* Properties of calculate_derivative and process_channel_data *)

\* C7: process_channel_data and calculate_derivative called with a timestamp
\* sequence whose length differs from the sample sequence's always raise and
\* never return a result.
C7_Claim ==
    /\ (op = "calculate_derivative" /\ Len(args.timestamps) # Len(args.data)) => ret.raised
    /\ (op = "process_channel_data" /\ args.timestamps.given
            /\ Len(args.timestamps.seq) # Len(args.data)) => ret.raised

\* C8: in a result of process_channel_data with a derivative, max_rate is None
\* whenever the derivative is empty or all NaN, and otherwise the largest
\* absolute value among the non-NaN derivative entries.
C8_Claim ==
    (op = "process_channel_data" /\ ~ret.raised /\ ret.value.has_derivative) =>
        LET d == ret.value.derivative
            m == ret.value.max_rate
        IN  IF AllNaN(d) THEN m = None
            ELSE /\ \E i \in 1..Len(d) : m = RAbs(d[i])
                 /\ \A i \in 1..Len(d) : ~IsNaN(d[i]) => RLe(RAbs(d[i]), m)

\* C12: in every result of process_channel_data, steady_state is populated
\* iff timestamps were supplied and the filtered length is > 50, and the
\* derivative and max_rate are produced iff timestamps were supplied and the
\* filtered length is > 1; a populated steady_state comes from the scan with
\* window 50 and threshold 0.1, has is_steady iff index >= 0 iff
\* time_to_steady is not None, and time_to_steady = timestamps[index]; with
\* timestamps as long as the samples the call raises nothing.
C12_StagesUnderGates ==
    op = "process_channel_data" =>
        /\ (args.timestamps.given /\ Len(args.timestamps.seq) = Len(args.data)) => ~ret.raised
        /\ ~ret.raised =>
            LET r == ret.value
                ss == r.steady_state
            IN  /\ ss.present <=> (args.timestamps.given /\ Len(r.filtered) > 50)
                /\ r.has_derivative <=> (args.timestamps.given /\ Len(r.filtered) > 1)
                /\ ~r.has_derivative => (r.derivative = <<>> /\ r.max_rate = None)
                /\ ss.present =>
                    /\ ss.is_steady <=> ss.index >= 0
                    /\ ss.index >= 0 <=> ss.time_to_steady # None
                    /\ ss.index >= 0 =>
                        /\ ss.index >= 50
                        /\ ss.index < Len(r.filtered)
                        /\ StdBelow(SubSeq(r.filtered, ss.index - 49, ss.index), <<1, 10>>)
                        /\ ss.time_to_steady = args.timestamps.seq[ss.index + 1]
                    /\ ss.index < 0 => ss.index = -1

\* a call on more than 50 samples whose scan finds the steady state after the
\* first window and reports the timestamp at that index
C12_Witness ==
    /\ op = "process_channel_data"
    /\ ~ret.raised
    /\ ret.value.steady_state.present
    /\ ret.value.steady_state.is_steady
    /\ ret.value.steady_state.index > 50
    /\ ret.value.steady_state.time_to_steady = R(ret.value.steady_state.index)
    /\ ret.value.has_derivative

\* a call on more than 50 samples whose scan finds nothing
C12_WitnessNotFound ==
    /\ op = "process_channel_data"
    /\ ~ret.raised
    /\ ret.value.steady_state.present
    /\ ~ret.value.steady_state.is_steady

\* C13: in every result of process_channel_data, whatever the filter
\* configuration, raw is the input, cleaned and filtered have exactly the
\* input's length, and outlier_count is the number of indices at which cleaned
\* is NaN and raw is not.
C13_IndexAlignment ==
    (op = "process_channel_data" /\ ~ret.raised) =>
        LET r == ret.value
        IN  /\ r.raw = args.data
            /\ Len(r.cleaned) = Len(r.raw)
            /\ Len(r.filtered) = Len(r.raw)
            /\ r.outlier_count
                  = Cardinality({i \in 1..Len(r.raw) : IsNaN(r.cleaned[i]) /\ ~IsNaN(r.raw[i])})

\* a call with the moving average enabled on a channel holding a NaN, and a
\* result whose filtered sequence still has a value
C13_Witness ==
    /\ op = "process_channel_data"
    /\ ~ret.raised
    /\ args.self.filter_enabled
    /\ args.self.filter_type = "moving_average"
    /\ CountNaN(args.data) >= 1
    /\ ~AllNaN(ret.value.filtered)

\* a call that removes an outlier before filtering
C13_WitnessOutlier ==
    /\ op = "process_channel_data"
    /\ ~ret.raised
    /\ ret.value.outlier_count >= 1
    /\ args.self.filter_enabled

\* C10: on n samples with n timestamps calculate_derivative raises nothing and
\* returns the empty sequence when n < 2 and otherwise exactly n-1 rates, rate
\* i being (samples[i+1] - samples[i]) / (timestamps[i+1] - timestamps[i]) when
\* the two timestamps differ and NaN when they are equal.
C10_DerivativeRates ==
    (op = "calculate_derivative" /\ Len(args.timestamps) = Len(args.data)) =>
        LET n == Len(args.data)
            x == args.data
            t == args.timestamps
        IN  /\ ~ret.raised
            /\ n < 2 => ret.value = <<>>
            /\ n >= 2 =>
                /\ Len(ret.value) = n - 1
                /\ \A i \in 1..(n - 1) :
                     ret.value[i] = IF t[i + 1] = t[i] THEN NaN
                                    ELSE RDiv(RSub(x[i + 1], x[i]), RSub(t[i + 1], t[i]))

\* a call whose timestamps repeat once and advance once, giving a NaN rate
\* next to a non-zero rate
C10_Witness ==
    /\ op = "calculate_derivative"
    /\ ~ret.raised
    /\ Len(args.timestamps) = Len(args.data)
    /\ \E i, j \in 1..Len(ret.value) :
        /\ args.timestamps[i + 1] = args.timestamps[i]
        /\ ~IsNaN(args.data[i]) /\ ~IsNaN(args.data[i + 1])
        /\ IsNaN(ret.value[i])
        /\ ~IsNaN(ret.value[j]) /\ ret.value[j][1] # 0

----------------------------------------------------------------------------
(* Properties of calculate_statistics *)

\* C11: calculate_statistics never raises; it returns the empty dict exactly
\* when the sequence has no non-NaN entry (empty or all NaN), and for a
\* sequence with at least one non-NaN entry a dict with all eleven fields.
C11_EmptyIffNoValid ==
    op = "calculate_statistics" =>
        /\ ~ret.raised
        /\ Cardinality(StatKeys) = 11
        /\ (DOMAIN ret.value = {}) <=> (Len(ValidData(args.data)) = 0)
        /\ (Len(ValidData(args.data)) > 0) => (DOMAIN ret.value = StatKeys)

\* a call on a sequence that holds a NaN next to valid samples and gets the
\* full dict
C11_Witness ==
    /\ op = "calculate_statistics"
    /\ CountNaN(args.data) >= 1
    /\ Len(ValidData(args.data)) >= 1
    /\ DOMAIN ret.value = StatKeys

\* a call on a sequence of NaN only, which gets the empty dict
C11_WitnessAllNaN ==
    /\ op = "calculate_statistics"
    /\ Len(args.data) >= 1
    /\ AllNaN(args.data)
    /\ DOMAIN ret.value = {}

\* C17: in every non-empty result of calculate_statistics, samples is the
\* number of non-NaN entries, valid_ratio is samples / total and lies in
\* (0, 1], range = max - min >= 0, iqr = q75 - q25 >= 0,
\* min <= q25 <= median <= q75 <= max, and min, max and mean are those of the
\* non-NaN entries.
C17_StatisticsConsistent ==
    (op = "calculate_statistics" /\ DOMAIN ret.value = StatKeys) =>
        LET st == ret.value
            v == ValidData(args.data)
        IN  /\ st["samples"] = R(Len(v))
            /\ st["valid_ratio"] = RDiv(st["samples"], R(Len(args.data)))
            /\ RGt(st["valid_ratio"], R(0)) /\ RLe(st["valid_ratio"], R(1))
            /\ st["range"] = RSub(st["max"], st["min"])
            /\ RLe(R(0), st["range"])
            /\ st["iqr"] = RSub(st["q75"], st["q25"])
            /\ RLe(R(0), st["iqr"])
            /\ RLe(st["min"], st["q25"])
            /\ RLe(st["q25"], st["median"])
            /\ RLe(st["median"], st["q75"])
            /\ RLe(st["q75"], st["max"])
            /\ \E i \in 1..Len(v) : v[i] = st["min"]
            /\ \E i \in 1..Len(v) : v[i] = st["max"]
            /\ \A i \in 1..Len(v) : RLe(st["min"], v[i]) /\ RLe(v[i], st["max"])
            /\ RMul(st["mean"], R(Len(v))) = SumSeq(v)

\* a call on a sequence with a NaN and two different valid samples: the
\* ratio is below 1 and the range is positive
C17_Witness ==
    /\ op = "calculate_statistics"
    /\ DOMAIN ret.value = StatKeys
    /\ RLt(ret.value["valid_ratio"], R(1))
    /\ RGt(ret.value["range"], R(0))

----------------------------------------------------------------------------
(* Properties of compare_channels *)

EqualLengths(channel_data) ==
    \A i, j \in 1..Len(channel_data) : Len(channel_data[i].data) = Len(channel_data[j].data)

\* the indices at which both sequences hold a value
JointlyValid(a, b) == {i \in 1..Len(a) : ~IsNaN(a[i]) /\ ~IsNaN(b[i])}

\* the mean of s over the indices of idx
MeanOver(s, idx) == RDiv(SumSeq(Array([i \in 1..Len(s) |-> IF i \in idx THEN s[i] ELSE R(0)])),
                         R(Cardinality(idx)))

\* C18: on channels of equal length compare_channels raises nothing; the
\* pair (i, j), i before j in the dict's order, has an entry under the key
\* '<name i>_vs_<name j>' iff more than 10 indices are non-NaN in both
\* sequences (a pair with exactly 10 has none); there is no other key, each
\* pair has at most one, the three maps have the same keys, and
\* mean_difference is mean(first) - mean(second) over the common indices.
C18_PairsAboveTenJointSamples ==
    (op = "compare_channels" /\ EqualLengths(args.channel_data)) =>
        LET cd == args.channel_data
            n == Len(cd)
            pairs == {p \in (1..n) \X (1..n) : p[1] < p[2]}
            joint(p) == JointlyValid(cd[p[1]].data, cd[p[2]].data)
            key(p) == cd[p[1]].name \o "_vs_" \o cd[p[2]].name
            compared == {p \in pairs : Cardinality(joint(p)) > 10}
        IN  /\ ~ret.raised
            /\ DOMAIN ret.value.cross_correlation = {key(p) : p \in compared}
            /\ Cardinality(DOMAIN ret.value.cross_correlation) = Cardinality(compared)
            /\ DOMAIN ret.value.mean_difference = DOMAIN ret.value.cross_correlation
            /\ DOMAIN ret.value.std_difference = DOMAIN ret.value.cross_correlation
            /\ \A p \in compared :
                 ret.value.mean_difference[key(p)]
                    = RSub(MeanOver(cd[p[1]].data, joint(p)), MeanOver(cd[p[2]].data, joint(p)))

\* three channels inserted in descending order of name, of which one pair has
\* exactly 10 common samples and gets no entry, and another pair has more and
\* a non-zero mean difference
C18_Witness ==
    /\ op = "compare_channels"
    /\ ~ret.raised
    /\ Len(args.channel_data) = 3
    /\ args.channel_data[1].name = "CH3"
    /\ \E i, j \in 1..3 :
        /\ i < j
        /\ Cardinality(JointlyValid(args.channel_data[i].data, args.channel_data[j].data)) = 10
        /\ (args.channel_data[i].name \o "_vs_" \o args.channel_data[j].name)
               \notin DOMAIN ret.value.cross_correlation
    /\ "CH3_vs_CH2" \in DOMAIN ret.value.mean_difference
    /\ ret.value.mean_difference["CH3_vs_CH2"][1] # 0

----------------------------------------------------------------------------
(* Properties of the Steinhart-Hart calibration *)

C19_WitnessFit ==
    /\ op = "calculate_steinhart_hart_coefficients"
    /\ Len(args.temperatures) = 4
    /\ Len(args.resistances) = 4
    /\ args.resistances[1] = args.resistances[4]
    /\ ~ret.raised
    /\ ret.value[3][1] # 0

\* the integer part and the fractional part of a rational
Floor(x) == x[1] \div x[2]

Frac(x) == <<x[1] % x[2], x[2]>>

\* |x - y| <= tol for a tolerance below 1, decided on the integer parts first
Close(x, y, tol) ==
    /\ ~IsNaN(x) /\ ~IsNaN(y)
    /\ Abs(Floor(x) - Floor(y)) <= 1
    /\ RLe(RAbs(RAdd(R(Floor(x) - Floor(y)), RSub(Frac(x), Frac(y)))), tol)

RoundTripWithinHalfDegree ==
    \A i \in 1..Len(args.resistances) :
        Close(ret.value.round_trip[i], ret.value.temperatures[i], <<1, 2>>)

\* no calibration resistance is raised to the floor of 0.001 by beta_equation,
\* neither itself nor its ratio to r0
NoneClamped ==
    \A i \in 1..Len(args.resistances) :
        /\ RLe(ClampEpsilon, args.resistances[i])
        /\ RLe(ClampEpsilon, RDiv(args.resistances[i], args.known.r0))

\* C20 as stated: for 3 or more points (T_i, R_i) with distinct positive R_i
\* and T_i = beta_equation(R_i, r0, t0, beta), the fitted Steinhart-Hart
\* equation gives a temperature within 0.5 C of T_i at every R_i.
C20_Original == op = "steinhart_hart_round_trip" => RoundTripWithinHalfDegree

\* C20 amended: the same, for calibration resistances that beta_equation does
\* not clamp (R_i >= 0.001 and R_i / r0 >= 0.001).
C20_RoundTripUnclamped ==
    (op = "steinhart_hart_round_trip" /\ NoneClamped) => RoundTripWithinHalfDegree

\* a round trip over four unclamped points at four different temperatures,
\* fitted with a non-zero slope
C20_Witness ==
    /\ op = "steinhart_hart_round_trip"
    /\ NoneClamped
    /\ Len(args.resistances) = 4
    /\ \A i, j \in 1..4 : i # j => ret.value.temperatures[i] # ret.value.temperatures[j]
    /\ ret.value.coefficients[2][1] # 0
    /\ RoundTripWithinHalfDegree

----------------------------------------------------------------------------
(* Properties of the Beta calibration *)

Within(x, y, tol) == ~IsNaN(x) /\ ~IsNaN(y) /\ RLe(RAbs(RSub(x, y)), tol)

\* C9: the Beta value computed from two calibration points (t1, r1), (t2, r2),
\* used in the Beta equation with r0 = r1 and t0 = t1, reproduces both points
\* within 0.01 C.
C9_Claim ==
    op = "calculate_beta_from_points" =>
        /\ Within(ret.value.at_r1, args.t1, <<1, 100>>)
        /\ Within(ret.value.at_r2, args.t2, <<1, 100>>)

----------------------------------------------------------------------------
(* Properties of the angle functions *)

\* -180 <= x <= 180
InRange(x) == ~FloatLt(x, Degrees(-180)) /\ ~FloatGt(x, Degrees(180))

\* x - y is a whole multiple of 360
Congruent360(x, y) ==
    LET d == FloatSub(x, y)
    IN  d.exp >= 0 /\ (d.sig * 2^(d.exp)) % 360 = 0

NormalizeExamples ==
    {<<181, -179>>, <<-181, 179>>, <<360, 0>>, <<-360, 0>>}

\* C24: for every finite input angle, normalize_angle_deg terminates and
\* returns r with -180 <= r <= 180 and r congruent to the input modulo 360;
\* an input already in [-180, 180] is returned unchanged, so the operation
\* is idempotent (181 -> -179, -181 -> 179, 360 -> 0, -360 -> 0).
C24_Claim ==
    /\ [](op = "normalize_angle_deg:returned" =>
            /\ InRange(ret.value)
            /\ Congruent360(ret.value, args.given)
            /\ InRange(args.given) => ret.value = args.given
            /\ normalize_angle_deg(ret.value) = ret.value
            /\ \A e \in NormalizeExamples :
                  args.given = Degrees(e[1]) => ret.value = Degrees(e[2]))
    /\ (op = "normalize_angle_deg:29") ~> (op = "normalize_angle_deg:returned")

\* the odd multiples of 180 outside [-180, 180] among the enumerated angles
OddHalfTurns == {k \in -(MaxTurns + 1)..(MaxTurns + 1) : k % 2 = 1 /\ Abs(k) > 1}

\* C25: normalize_angle_deg maps an odd multiple of 180 outside [-180, 180]
\* to the boundary of opposite sign, as the normalization test table
\* expects: normalize_angle_deg(540) = -180 and normalize_angle_deg(-540) = 180.
C25_Claim ==
    op = "normalize_angle_deg" =>
        \A k \in OddHalfTurns :
            args.angle_deg = Degrees(180 * k) =>
                ret.value = Degrees(IF k > 0 THEN -180 ELSE 180)

\* angle_diff_deg of the module of the call, with the arguments swapped
SwappedDiff ==
    IF op = "angle_diff_deg"
    THEN angle_diff_deg(args.angle2_deg, args.angle1_deg)
    ELSE qr_positioning_angle_diff_deg(args.angle2_deg, args.angle1_deg)

CalledWith(a1, a2) == args.angle1_deg = Degrees(a1) /\ args.angle2_deg = Degrees(a2)

C26_WitnessQr ==
    /\ op = "qr_positioning.angle_diff_deg"
    /\ CalledWith(350, 10)
    /\ ret.value = Degrees(-20)

\* the self-test table of qr_positioning_normalized.py: angle1, angle2, expected
QrSelfTest ==
    {<<179, -179, 2>>, <<-179, 179, -2>>, <<10, 350, 20>>,
     <<350, 10, -20>>, <<0, 360, 0>>, <<180, -180, 0>>}

\* C27: angle_diff_deg of the QR positioning module returns angle1 - angle2
\* with the sign its self-test table expects: (179, -179) gives 2 and
\* (-179, 179) gives -2 (and 20, -20, 0, 0 for the other four rows).
C27_Claim ==
    op = "qr_positioning_normalized.angle_diff_deg" =>
        \A t \in QrSelfTest :
            CalledWith(t[1], t[2]) => ret.value = Degrees(t[3])

----------------------------------------------------------------------------
(* The conversion of the acquisition script against the Beta equation *)

\* C29: convert_resistance_to_temperature(resistance, r0, t0, beta) agrees
\* with beta_equation(resistance, r0, t0, beta) for every explicitly passed
\* parameter triple, a reference temperature t0 = 0 included; the configured
\* NTC parameters stand in only for the parameters the caller omitted.
C29_Claim ==
    op = "convert_resistance_to_temperature" =>
        LET r0 == OrIfNone(args.r0, args.self.ntc_params.r0)
            t0 == OrIfNone(args.t0, args.self.ntc_params.t0)
            beta == OrIfNone(args.beta, args.self.ntc_params.beta)
        IN  ret.value = Array([i \in 1..Len(args.resistance) |->
                            beta_equation(args.resistance[i], r0, t0, beta)])

----------------------------------------------------------------------------
(* The moving average at the edges *)

\* C28: for moving_average_filter with at least `window` non-NaN samples,
\* every output at a non-NaN input position (the first and last
\* floor(window/2) positions of the valid samples included) is an average of
\* valid input samples and lies between the minimum and the maximum of the
\* valid inputs; a constant valid sequence is returned with every valid
\* position equal to that constant, and every NaN input position stays NaN.
C28_Claim ==
    (op = "moving_average_filter" /\ Len(ValidData(args.data)) >= args.window) =>
        LET valid == ValidData(args.data)
            sorted == SortAsc(valid)
        IN  \A i \in 1..Len(args.data) :
                IF IsNaN(args.data[i]) THEN IsNaN(ret.value[i])
                ELSE /\ RLe(sorted[1], ret.value[i])
                     /\ RLe(ret.value[i], sorted[Len(sorted)])
                     /\ IsConstant(valid) => ret.value[i] = valid[1]

----------------------------------------------------------------------------
(* Storage and concurrency of process_channel_data *)

\* C21: no operation of the data processor modifies the sample or timestamp
\* sequence passed to it, and none modifies the four Filter Configuration
\* fields set at construction: after any sequence of calls the caller's
\* arrays and the configuration are unchanged.
C21_InputsAndConfigUnchanged ==
    /\ args.self = args.given.config
    /\ \A t \in CallIds :
        /\ Store[args.calls[t].data] = args.given.samples[t]
        /\ args.calls[t].timestamps # 0 =>
              Store[args.calls[t].timestamps] = args.given.times[t]

\* C21 witness: a call that returned after remove_outliers wrote NaN over an
\* outlier and the filter wrote its output, the input still holding the outlier
C21_Witness ==
    \E t \in CallIds :
        /\ op[t] = "returned"
        /\ args.calls[t].timestamps # 0
        /\ ret[t].filtered # ret[t].cleaned
        /\ \E i \in 1..Len(ret[t].outlier_mask) :
              /\ ret[t].outlier_mask[i]
              /\ IsNaN(Store[ret[t].cleaned][i])
              /\ ~IsNaN(Store[args.calls[t].data][i])

\* C22: every Processed Channel Result is newly allocated: for every Filter
\* Configuration (filter disabled, unknown kind and all-NaN data included)
\* the raw, cleaned and filtered sequences of the result are storage
\* distinct from the caller's input and from each other, so that a write to
\* one of them changes neither the input nor another field of the result.
C22_Claim ==
    \A t \in CallIds :
        op[t] = "returned" =>
            Cardinality({args.calls[t].data, ret[t].raw, ret[t].cleaned, ret[t].filtered}) = 4

\* the result call t returned, its arrays read as they are now
ResultOf(t) ==
    IF ret[t].result.raised THEN Raised
    ELSE Returned([ret[t].result.value EXCEPT
                      !.raw = Store[ret[t].raw],
                      !.cleaned = Store[ret[t].cleaned],
                      !.filtered = Store[ret[t].filtered]])

\* the results process_channel_data can return on the input of call t when
\* it runs alone
AloneResults(t) ==
    process_channel_data(args.given.config, args.given.samples[t],
                         IF args.given.times = <<>> THEN NoTimestamps
                         ELSE Timestamps(args.given.times[t]))

\* C23: process_channel_data may be invoked concurrently on one shared
\* processor: for every interleaving of the stages of two or more calls on
\* distinct input sequences, each call returns exactly a result it returns
\* when run alone, which depends only on its own samples, timestamps and the
\* configuration.
C23_ConcurrentCallsIndependent ==
    \A t \in CallIds : op[t] = "returned" => ResultOf(t) \in AloneResults(t)

\* C23 witness: call 1 has returned a filtered result while call 2, on other
\* samples, stands between the copy and the write of remove_outliers
C23_Witness ==
    /\ op[1] = "returned"
    /\ op[2] = "61"
    /\ args.given.samples[1] # args.given.samples[2]
    /\ ret[1].filtered # ret[1].cleaned
    /\ ret[1].result.value.outlier_count > 0
    /\ ResultOf(1) \in AloneResults(1)

====
